---- MODULE Spec2Model ----
(***************************************************************************)
(* MiniDB-on-Crypto: the AVL tree map (core/indexing.py), the record store *)
(* built on it (core/storage.py), the wallet graph (core/graph.py) and the *)
(* amount iteration of the analytics and the request handlers of the       *)
(* service (app.py).                                                       *)
(*                                                                         *)
(* Heap objects are modelled in an arena: a tree is a record               *)
(*   [root, tsize, size, node]                                             *)
(* where node is a sequence of node records                                *)
(*   [element, parent, left, right, aux]                                   *)
(* and a position is an index into it.  Nil is Python's None used as a     *)
(* position; an optional value is None == <<>> or Some(v) == <<v>>.        *)
(* A node's element is None (a defunct node) or Some([key, value]): the    *)
(* _MapEntry of a node is referenced by that node alone, so it is stored   *)
(* inline.                                                                 *)
(***************************************************************************)
EXTENDS Integers, Sequences, FiniteSets, TLC

VARIABLES
    tree,               \* an AVLTreeMap used on its own
    lastOp,             \* the last call made: [op, x, y, rec]
    ret,                \* what that call returned
    data_store,         \* CryptoDB.data_store
    timestamp_index,    \* CryptoDB.timestamp_index
    token_index,        \* CryptoDB.token_index
    wallet_from_index,  \* CryptoDB.wallet_from_index
    next_record_id,     \* CryptoDB.next_record_id
    active_records,     \* CryptoDB.active_records
    app_g,              \* app.py's g, the CryptoGraph of the service
    app_STATE,          \* app.py's STATE: [db_loaded, graph_built]
    pc                  \* where a request that is being served stands

mapVars == <<tree>>
dbVars == <<data_store, timestamp_index, token_index, wallet_from_index,
            next_record_id, active_records>>
appVars == <<app_g, app_STATE, pc>>
vars == <<lastOp, ret, tree, data_store, timestamp_index, token_index,
          wallet_from_index, next_record_id, active_records, app_g,
          app_STATE, pc>>

----------------------------------------------------------------------------
(* Bounds *)

\* SpecAVL: the keys put and removed are 1..MaxKey
MaxKey == 8
\* SpecMap: the keys are 1..MapKey, the values 1..MaxVal
MapKey == 4
MaxVal == 2
\* SpecStore: at most MaxRecords records are inserted; timestamps are
\* 1..MaxTs, tokens 1..MaxToken, wallets 1..MaxWallet; an update carries at
\* most MaxUpdateFields fields
MaxRecords == 2
MaxTs == 2
MaxToken == 2
MaxWallet == 2
MaxUpdateFields == 1
\* SpecOrder: at most OrdRecords records, so that a bucket can hold ids on
\* both sides of one that leaves it; timestamps are 1..OrdTs, tokens
\* 1..OrdToken, sender wallets 1..OrdWallet
OrdRecords == 3
OrdTs == 2
OrdToken == 1
OrdWallet == 1
\* SpecApp: at most AppRecords records are posted; timestamps are 1..AppTs,
\* wallets 1..AppWallet
AppRecords == 2
AppTs == 2
AppWallet == 2
\* SpecGraph: at most GraphRecords records, between the wallets
\* 1..GraphWallet
GraphRecords == 3
GraphWallet == 3
\* SpecThreads: at most ThreadRecords records, between the wallets
\* 1..ThreadWallet
ThreadRecords == 2
ThreadWallet == 2
\* SpecStats: at most StatRecords records of the tokens 1..StatToken with
\* the prices 1..StatPrice; the sample sizes are 0..StatSample
StatRecords == 3
StatToken == 2
StatPrice == 3
StatSample == 2
\* SpecReads: at most ReadRecords records, with timestamps and tokens
\* 1..ReadKey
ReadRecords == 2
ReadKey == 2
\* SpecRebuild: at most RebuildRecords records, between the wallets
\* 1..GraphWallet
RebuildRecords == 2
\* SpecWalk: at most WalkRecords records, between the wallets 1..WalkWallet;
\* the interpreter lets _dfs call itself WalkDepth deep (CPython: its
\* recursion limit, 1000 frames by default, less those of the callers)
WalkRecords == 3
WalkWallet == 4
WalkDepth == 3
\* SpecFilters: records in the store, values of a filtered field
FilterRecords == 2
FilterValue == 2
\* SpecFilters: values asked for by a filter
FilterAsked == 1
\* SpecSeeded: records in the store, greatest sample size
SeededRecords == 4
SeededSample == 3

----------------------------------------------------------------------------
(* Python values *)

Nil == 0
None == <<>>
Some(v) == <<v>>

Max(a, b) == IF a >= b THEN a ELSE b
Min(a, b) == IF a <= b THEN a ELSE b
Abs(a) == IF a < 0 THEN -a ELSE a

----------------------------------------------------------------------------
(* LinkedBinaryTree / BalanceableBinaryTree: nodes and links *)

\* indexing.py:277-283, 151-155: a fresh _BSTNode
_BSTNode(e, parent, left, right) ==
    [element |-> Some(e), parent |-> parent, left |-> left, right |-> right,
     aux |-> 0]

\* Map._MapEntry(k, v)
_MapEntry(k, v) == [key |-> k, value |-> v]

BalanceableBinaryTree ==
    [root |-> Nil, tsize |-> 0, size |-> 0, node |-> <<>>]

get_parent(t, p) == t.node[p].parent
get_left(t, p) == t.node[p].left
get_right(t, p) == t.node[p].right
get_element(t, p) == t.node[p].element[1]
get_key(t, p) == t.node[p].element[1].key
get_value(t, p) == t.node[p].element[1].value
get_aux(t, p) == t.node[p].aux

set_parent(t, p, q) == [t EXCEPT !.node[p].parent = q]
set_left(t, p, q) == [t EXCEPT !.node[p].left = q]
set_right(t, p, q) == [t EXCEPT !.node[p].right = q]
set_aux(t, p, h) == [t EXCEPT !.node[p].aux = h]
set_element(t, p, e) == [t EXCEPT !.node[p].element = e]

\* _Node.__eq__: same type, equal elements (_MapEntry.__eq__ compares the
\* keys) and equal parents, the parents compared with == again, up to the
\* root; None equals only None.
RECURSIVE Node_eq(_, _, _)
Node_eq(t, a, b) ==
    IF a = Nil \/ b = Nil THEN a = Nil /\ b = Nil
    ELSE /\ get_key(t, b) = get_key(t, a)
         /\ Node_eq(t, get_parent(t, b), get_parent(t, a))

\* _make_node: a fresh node object. Its address is the next unused slot of
\* the arena.
NewPosition(t) == Len(t.node) + 1

_make_node(t, p, e, parent) ==
    [t EXCEPT !.node = Append(t.node, _BSTNode(e, parent, Nil, Nil))]

is_empty(t) == t.tsize = 0

num_children(t, p) ==
    (IF get_left(t, p) # Nil THEN 1 ELSE 0)
    + (IF get_right(t, p) # Nil THEN 1 ELSE 0)

\* add_root / add_left / add_right return [t, p]
add_root(t, e) ==
    LET p == NewPosition(t)
        t1 == _make_node(t, p, e, Nil)
    IN [t |-> [t1 EXCEPT !.root = p, !.tsize = 1], p |-> p]

add_left(t, parent, e) ==
    LET p == NewPosition(t)
        t1 == _make_node(t, p, e, parent)
        t2 == set_left(t1, parent, p)
    IN [t |-> [t2 EXCEPT !.tsize = @ + 1], p |-> p]

add_right(t, parent, e) ==
    LET p == NewPosition(t)
        t1 == _make_node(t, p, e, parent)
        t2 == set_right(t1, parent, p)
    IN [t |-> [t2 EXCEPT !.tsize = @ + 1], p |-> p]

\* LinkedBinaryTree.set: returns [t, ret] with ret the replaced element
tree_set(t, p, e) ==
    [t |-> set_element(t, p, Some(e)), ret |-> get_element(t, p)]

\* LinkedBinaryTree.remove (p has at most one child): returns [t, ret]
tree_remove(t, node) ==
    LET child == IF get_left(t, node) # Nil THEN get_left(t, node)
                 ELSE get_right(t, node)
        t1 == IF child # Nil THEN set_parent(t, child, get_parent(t, node))
              ELSE t
        t2 == IF Node_eq(t1, node, t1.root)
              THEN [t1 EXCEPT !.root = child]
              ELSE LET parent == get_parent(t1, node)
                   IN IF Node_eq(t1, node, get_left(t1, parent))
                      THEN set_left(t1, parent, child)
                      ELSE set_right(t1, parent, child)
        t3 == [t2 EXCEPT !.tsize = @ - 1]
        temp == get_element(t3, node)
        t4 == set_parent(set_element(t3, node, None), node, node)
    IN [t |-> t4, ret |-> temp]

----------------------------------------------------------------------------
(* BalanceableBinaryTree: heights, rotations, rebalancing *)

_get_height(t, p) == IF p = Nil THEN 0 ELSE get_aux(t, p)

_update_height(t, p) ==
    LET h_left == _get_height(t, get_left(t, p))
        h_right == _get_height(t, get_right(t, p))
    IN set_aux(t, p, 1 + Max(h_left, h_right))

_is_balanced(t, p) ==
    LET h_left == _get_height(t, get_left(t, p))
        h_right == _get_height(t, get_right(t, p))
    IN Abs(h_left - h_right) <= 1

_taller_child(t, p) ==
    LET h_left == _get_height(t, get_left(t, p))
        h_right == _get_height(t, get_right(t, p))
    IN IF h_left > h_right THEN get_left(t, p)
       ELSE IF h_right > h_left THEN get_right(t, p)
       ELSE get_left(t, p)

\* a wrong _relink, which leaves the child's parent pointer as it was
_relink_one_way(t, parent, child, make_left_child) ==
    IF make_left_child THEN set_left(t, parent, child)
    ELSE set_right(t, parent, child)

_relink(t, parent, child, make_left_child) ==
    LET t1 == IF child # Nil THEN set_parent(t, child, parent) ELSE t
    IN IF make_left_child THEN set_left(t1, parent, child)
       ELSE set_right(t1, parent, child)

rotate(t, x) ==
    LET y == get_parent(t, x)
        z == get_parent(t, y)
        t1 == IF z = Nil
              THEN set_parent([t EXCEPT !.root = x], x, Nil)
              ELSE _relink(t, z, x, Node_eq(t, y, get_left(t, z)))
    IN IF Node_eq(t1, x, get_left(t1, y))
       THEN _relink(_relink(t1, y, get_right(t1, x), TRUE), x, y, FALSE)
       ELSE _relink(_relink(t1, y, get_left(t1, x), FALSE), x, y, TRUE)

\* a wrong restructure, which rotates y above z whatever the side of x
restructure_single(t, x) ==
    [t |-> rotate(t, get_parent(t, x)), p |-> get_parent(t, x)]

\* restructure returns [t, p], p the root of the restructured subtree
restructure(t, x) ==
    LET y == get_parent(t, x)
        z == get_parent(t, y)
    IN IF Node_eq(t, get_left(t, z), y) = Node_eq(t, get_left(t, y), x)
       THEN [t |-> rotate(t, y), p |-> y]
       ELSE [t |-> rotate(rotate(t, x), x), p |-> x]

\* _rebalance_avl: the while loop, one iteration per call.  The steps of an
\* iteration are operators of their own, each taking what the steps before
\* it computed.
RECURSIVE _rebalance_avl(_, _)

\* a wrong end of the iteration, which leaves the loop whether or not the
\* height of p has changed
rebalance_next_once(t, p, old_height) == t

\* "if self._get_height(p) == old_height: p = None else: p = parent(p)"
rebalance_next(t, p, old_height) ==
    IF _get_height(t, p) = old_height THEN t
    ELSE _rebalance_avl(t, get_parent(t, p))

\* the heights of the two children of p and of p, updated in that order
rebalance_heights(t, p) ==
    _update_height(
        _update_height(_update_height(t, get_left(t, p)), get_right(t, p)),
        p)

\* r is what restructure returned: [t, p]
rebalance_restructured(r, old_height) ==
    rebalance_next(rebalance_heights(r.t, r.p), r.p, old_height)

\* t is the tree after _update_height(p)
rebalance_step(t, p, old_height) ==
    IF ~_is_balanced(t, p)
    THEN rebalance_restructured(
             restructure(t, _taller_child(t, _taller_child(t, p))),
             old_height)
    ELSE rebalance_next(t, p, old_height)

_rebalance_avl(t, p) ==
    IF p = Nil THEN t
    ELSE rebalance_step(_update_height(t, p), p, _get_height(t, p))

----------------------------------------------------------------------------
(* AVLTreeMap *)

AVLTreeMap == BalanceableBinaryTree

\* a wrong _subtree_first_position, which takes the right child itself for
\* the successor
first_position_no_walk(t, walk) == walk

RECURSIVE _subtree_first_position(_, _)
_subtree_first_position(t, walk) ==
    IF get_left(t, walk) # Nil
    THEN _subtree_first_position(t, get_left(t, walk))
    ELSE walk

\* the while loop of _find_position; returns <<p, parent>>
RECURSIVE _find_position_loop(_, _, _, _)
_find_position_loop(t, walk, parent, k) ==
    IF walk = Nil THEN <<Nil, parent>>
    ELSE IF k = get_key(t, walk) THEN <<walk, parent>>
    ELSE IF k < get_key(t, walk)
         THEN _find_position_loop(t, get_left(t, walk), walk, k)
         ELSE _find_position_loop(t, get_right(t, walk), walk, k)

_find_position(t, k) ==
    IF is_empty(t) THEN <<Nil, Nil>>
    ELSE _find_position_loop(t, t.root, Nil, k)

get(t, k) ==
    LET p == _find_position(t, k)[1]
    IN IF p = Nil THEN None ELSE Some(get_value(t, p))

\* put returns [t, ret], ret the old value or None
put(t, k, v) ==
    LET entry == _MapEntry(k, v)
    IN IF is_empty(t)
       THEN LET a == add_root(t, entry)
            IN [t |-> _rebalance_avl([a.t EXCEPT !.size = @ + 1], a.p),
                ret |-> None]
       ELSE LET f == _find_position(t, k)
                p == f[1]
                parent == f[2]
            IN IF p # Nil
               THEN LET s == tree_set(t, p, entry)
                    IN [t |-> s.t, ret |-> Some(s.ret.value)]
               ELSE LET a == IF k < get_key(t, parent)
                             THEN add_left(t, parent, entry)
                             ELSE add_right(t, parent, entry)
                    IN [t |-> _rebalance_avl([a.t EXCEPT !.size = @ + 1], a.p),
                        ret |-> None]

\* remove returns [t, ret], ret the removed value or None
remove(t, k) ==
    LET p0 == _find_position(t, k)[1]
    IN IF p0 = Nil THEN [t |-> t, ret |-> None]
       ELSE
         LET two == num_children(t, p0) = 2
             successor == _subtree_first_position(t, get_right(t, p0))
             t1 == IF two
                   THEN set_element(t, p0,
                            Some(_MapEntry(get_key(t, successor),
                                           get_value(t, successor))))
                   ELSE t
             p == IF two THEN successor ELSE p0
             parent == get_parent(t1, p)
             r == tree_remove(t1, p)
             t2 == [r.t EXCEPT !.size = @ - 1]
         IN [t |-> _rebalance_avl(t2, parent), ret |-> Some(r.ret.value)]

\* a wrong first loop of sub_map, which leaves out the lower bound
\* (k1 < key)
RECURSIVE sub_map_first_strict(_, _, _, _)
sub_map_first_strict(t, walk, current, k1) ==
    IF walk = Nil THEN current
    ELSE IF k1 < get_key(t, walk)
         THEN sub_map_first_strict(t, get_left(t, walk), walk, k1)
         ELSE sub_map_first_strict(t, get_right(t, walk), current, k1)

\* sub_map: the first loop finds the leftmost node with k1 <= key
RECURSIVE sub_map_first(_, _, _, _)
sub_map_first(t, walk, current, k1) ==
    IF walk = Nil THEN current
    ELSE IF k1 <= get_key(t, walk)
         THEN sub_map_first(t, get_left(t, walk), walk, k1)
         ELSE sub_map_first(t, get_right(t, walk), current, k1)

\* sub_map: the inner loop climbs while current is a right child
RECURSIVE sub_map_climb(_, _, _)
sub_map_climb(t, current, parent) ==
    IF parent # Nil /\ Node_eq(t, current, get_right(t, parent))
    THEN sub_map_climb(t, parent, get_parent(t, parent))
    ELSE parent

\* sub_map: the second loop yields values while key < k2
RECURSIVE sub_map_walk(_, _, _)
sub_map_walk(t, current, k2) ==
    IF current = Nil THEN <<>>
    ELSE IF get_key(t, current) < k2
         THEN <<get_value(t, current)>> \o
              sub_map_walk(t,
                  IF get_right(t, current) # Nil
                  THEN _subtree_first_position(t, get_right(t, current))
                  ELSE sub_map_climb(t, current, get_parent(t, current)),
                  k2)
         ELSE <<>>

sub_map(t, k1, k2) == sub_map_walk(t, sub_map_first(t, t.root, Nil, k1), k2)

----------------------------------------------------------------------------
(* The heap up to addresses.  A node that tree_remove made defunct is     *)
(* referenced by nothing and is garbage; the address of a live node is     *)
(* observable to no operation (positions never leave AVLTreeMap).  After   *)
(* each call the arena is compacted: the live nodes, in preorder from the  *)
(* root, are renumbered 1..n and every link is renamed accordingly.        *)

RECURSIVE Preorder(_, _)
Preorder(t, p) ==
    IF p = Nil THEN <<>>
    ELSE <<p>> \o Preorder(t, get_left(t, p)) \o Preorder(t, get_right(t, p))

\* the new address of p; a link to a node that is not live dangles past
\* the end of the arena
Renamed(ord, p) ==
    IF p = Nil THEN Nil
    ELSE IF \E i \in DOMAIN ord : ord[i] = p
         THEN CHOOSE i \in DOMAIN ord : ord[i] = p
         ELSE Len(ord) + 1

Collect(t) ==
    LET ord == Preorder(t, t.root)
    IN [t EXCEPT !.root = Renamed(ord, t.root),
                 !.node = [i \in 1..Len(ord) |->
                             [t.node[ord[i]] EXCEPT
                                 !.parent = Renamed(ord, @),
                                 !.left = Renamed(ord, @),
                                 !.right = Renamed(ord, @)]]]

----------------------------------------------------------------------------
(* Iteration (AbstractBinaryTree._subtree_inorder, AVLTreeMap.__iter__)    *)

\* the positions of the subtree rooted at p, in order
RECURSIVE _subtree_inorder(_, _)
_subtree_inorder(t, p) ==
    (IF get_left(t, p) # Nil THEN _subtree_inorder(t, get_left(t, p))
     ELSE <<>>)
    \o <<p>> \o
    (IF get_right(t, p) # Nil THEN _subtree_inorder(t, get_right(t, p))
     ELSE <<>>)

inorder(t) == IF ~is_empty(t) THEN _subtree_inorder(t, t.root) ELSE <<>>

\* AVLTreeMap.__iter__: the keys in order
iter_keys(t) == [i \in DOMAIN inorder(t) |-> get_key(t, inorder(t)[i])]

\* AVLTreeMap.values: the values in key order
values(t) == [i \in DOMAIN inorder(t) |-> get_value(t, inorder(t)[i])]

----------------------------------------------------------------------------
(* CryptoDB (core/storage.py)                                              *)
(*                                                                         *)
(* A dict is a function from its keys (strings) to Python values; a Python *)
(* value is None or Some(v).  Tokens and wallets are strings in the        *)
(* program; the indexes only compare them, so they are modelled by their   *)
(* rank in the string order (1, 2, ..).  A record id is a 0-based index    *)
(* into data_store, whose slots are None (a tombstone) or Some(record).    *)
(* An operation on the store takes the store db (a record of the six       *)
(* attributes) and returns [db, ret].  A query that returns records        *)
(* returns references to the dicts held by the store: the id of the slot.  *)

\* dict.get(k) and dict.get(k, default)
dict_get(d, k) == IF k \in DOMAIN d THEN d[k] ELSE None
dict_get_default(d, k, default) == IF k \in DOMAIN d THEN d[k] ELSE default

\* dict.update(other)
dict_update(d, other) ==
    [k \in DOMAIN d \cup DOMAIN other |->
        IF k \in DOMAIN other THEN other[k] ELSE d[k]]

\* d[k] = v
dict_set(d, k, v) ==
    [j \in DOMAIN d \cup {k} |-> IF j = k THEN v ELSE d[j]]

\* A timestamp reaches the store as an int or as the decimal string of one:
\* PyInt(n) is the int n, PyStr(n) the string str(n).
PyInt(n) == <<"int", n>>
PyStr(n) == <<"str", n>>

\* int(x) of an int or of a decimal string: the number; int(None) raises
\* TypeError, which the callers below test for before they convert
py_int(x) == x[2]

\* raise E
Raise(e) == <<"raise", e>>

\* a wrong list.remove(x), which fills the hole with the last element
list_remove_swap(l, x) ==
    LET i == CHOOSE i \in DOMAIN l : l[i] = x /\ \A j \in 1..(i - 1) : l[j] # x
    IN [j \in 1..(Len(l) - 1) |-> IF j = i THEN l[Len(l)] ELSE l[j]]

\* list.remove(x): the list without the first occurrence of x
list_remove(l, x) ==
    LET i == CHOOSE i \in DOMAIN l : l[i] = x /\ \A j \in 1..(i - 1) : l[j] # x
    IN [j \in 1..(Len(l) - 1) |-> IF j < i THEN l[j] ELSE l[j + 1]]

CryptoDB ==
    [data_store |-> <<>>,
     timestamp_index |-> AVLTreeMap,
     token_index |-> AVLTreeMap,
     wallet_from_index |-> AVLTreeMap,
     next_record_id |-> 0,
     active_records |-> 0]

\* len(self.data_store) and self.data_store[record_id]
slot(db, record_id) == db.data_store[record_id + 1]
in_range(db, record_id) == 0 <= record_id /\ record_id < Len(db.data_store)

\* a wrong _add_to_timestamp_index, which puts the new id in front
add_to_timestamp_index_front(index, timestamp, record_id) ==
    LET current == get(index, timestamp)
    IN IF current = None
       THEN put(index, timestamp, <<record_id>>).t
       ELSE put(index, timestamp, <<record_id>> \o current[1]).t

\* every bucket the program stores is a list, so
\* "current if isinstance(current, list) else [current]" is current
_add_to_timestamp_index(index, timestamp, record_id) ==
    LET current == get(index, timestamp)
    IN IF current = None
       THEN put(index, timestamp, <<record_id>>).t
       ELSE put(index, timestamp, Append(current[1], record_id)).t

\* a wrong _remove_from_timestamp_index, which keeps the key of a bucket
\* that has become empty
remove_from_timestamp_index_keeps_key(index, timestamp, record_id) ==
    LET current == get(index, timestamp)
    IN IF current = None THEN index
       ELSE LET bucket == current[1]
            IN IF \A i \in DOMAIN bucket : bucket[i] # record_id
               THEN index
               ELSE put(index, timestamp, list_remove(bucket, record_id)).t

_remove_from_timestamp_index(index, timestamp, record_id) ==
    LET current == get(index, timestamp)
    IN IF current = None THEN index
       ELSE LET bucket == current[1]
            IN IF \A i \in DOMAIN bucket : bucket[i] # record_id
               THEN index
               ELSE IF list_remove(bucket, record_id) # <<>>
                    THEN put(index, timestamp,
                             list_remove(bucket, record_id)).t
                    ELSE remove(index, timestamp).t

\* a wrong _add_to_index, which replaces the bucket by the new id
add_to_index_overwrite(index, key, record_id) ==
    IF key = None THEN index ELSE put(index, key[1], <<record_id>>).t

\* a wrong _remove_from_index, which leaves the id in its bucket
remove_from_index_noop(index, key, record_id) == index

\* a wrong _add_to_index, which puts the new id in front
add_to_index_front(index, key, record_id) ==
    IF key = None THEN index
    ELSE LET current == get(index, key[1])
         IN IF current = None
            THEN put(index, key[1], <<record_id>>).t
            ELSE put(index, key[1], <<record_id>> \o current[1]).t

\* key is a Python value: None or Some(k)
_add_to_index(index, key, record_id) ==
    IF key = None THEN index
    ELSE LET current == get(index, key[1])
         IN IF current = None
            THEN put(index, key[1], <<record_id>>).t
            ELSE put(index, key[1], Append(current[1], record_id)).t

_remove_from_index(index, key, record_id) ==
    IF key = None THEN index
    ELSE LET current == get(index, key[1])
         IN IF current = None THEN index
            ELSE LET bucket == current[1]
                 IN IF \A i \in DOMAIN bucket : bucket[i] # record_id
                    THEN index
                    ELSE IF list_remove(bucket, record_id) # <<>>
                         THEN put(index, key[1],
                                  list_remove(bucket, record_id)).t
                         ELSE remove(index, key[1]).t

\* a wrong insert_record, which takes the number of active records for the
\* next id
insert_record_reuses_id(db, record) ==
    IF "timestamp" \notin DOMAIN record
    THEN [db |-> db, ret |-> Raise("ValueError")]
    ELSE IF record["timestamp"] = None
    THEN [db |-> db, ret |-> Raise("TypeError")]
    ELSE
      LET record_ts == py_int(record["timestamp"][1])
          record_id == db.active_records
      IN [db |->
            [data_store |-> Append(db.data_store, Some(record)),
             timestamp_index |->
                 _add_to_timestamp_index(db.timestamp_index, record_ts,
                                         record_id),
             token_index |->
                 _add_to_index(db.token_index, dict_get(record, "token"),
                               record_id),
             wallet_from_index |->
                 _add_to_index(db.wallet_from_index,
                               dict_get(record, "wallet_from"), record_id),
             next_record_id |-> db.next_record_id + 1,
             active_records |-> db.active_records + 1],
          ret |-> Some(record_id)]

\* a wrong insert_record, which takes the next id before it looks for the
\* timestamp
insert_record_checks_late(db, record) ==
    IF "timestamp" \notin DOMAIN record
    THEN [db |-> [db EXCEPT !.next_record_id = @ + 1],
          ret |-> Raise("ValueError")]
    ELSE IF record["timestamp"] = None
    THEN [db |-> [db EXCEPT !.next_record_id = @ + 1],
          ret |-> Raise("TypeError")]
    ELSE
      LET record_ts == py_int(record["timestamp"][1])
          record_id == db.next_record_id
      IN [db |->
            [data_store |-> Append(db.data_store, Some(record)),
             timestamp_index |->
                 _add_to_timestamp_index(db.timestamp_index, record_ts,
                                         record_id),
             token_index |->
                 _add_to_index(db.token_index, dict_get(record, "token"),
                               record_id),
             wallet_from_index |->
                 _add_to_index(db.wallet_from_index,
                               dict_get(record, "wallet_from"), record_id),
             next_record_id |-> db.next_record_id + 1,
             active_records |-> db.active_records + 1],
          ret |-> Some(record_id)]

insert_record(db, record) ==
    IF "timestamp" \notin DOMAIN record
    THEN [db |-> db, ret |-> Raise("ValueError")]
    ELSE IF record["timestamp"] = None
    THEN [db |-> db, ret |-> Raise("TypeError")]
    ELSE
      LET record_ts == py_int(record["timestamp"][1])
          record_id == db.next_record_id
      IN [db |->
            [data_store |-> Append(db.data_store, Some(record)),
             timestamp_index |->
                 _add_to_timestamp_index(db.timestamp_index, record_ts,
                                         record_id),
             token_index |->
                 _add_to_index(db.token_index, dict_get(record, "token"),
                               record_id),
             wallet_from_index |->
                 _add_to_index(db.wallet_from_index,
                               dict_get(record, "wallet_from"), record_id),
             next_record_id |-> db.next_record_id + 1,
             active_records |-> db.active_records + 1],
          ret |-> Some(record_id)]

\* a wrong delete_record, which forgets to count the record out
delete_record_keeps_count(db, record_id) ==
    IF ~in_range(db, record_id) THEN [db |-> db, ret |-> Some(FALSE)]
    ELSE IF slot(db, record_id) = None THEN [db |-> db, ret |-> Some(FALSE)]
    ELSE
      LET record == slot(db, record_id)[1]
      IN [db |->
            [data_store |->
                 [db.data_store EXCEPT ![record_id + 1] = None],
             timestamp_index |->
                 _remove_from_timestamp_index(db.timestamp_index,
                     py_int(record["timestamp"][1]), record_id),
             token_index |->
                 _remove_from_index(db.token_index,
                                    dict_get(record, "token"), record_id),
             wallet_from_index |->
                 _remove_from_index(db.wallet_from_index,
                                    dict_get(record, "wallet_from"),
                                    record_id),
             next_record_id |-> db.next_record_id,
             active_records |-> db.active_records],
          ret |-> Some(TRUE)]

\* a wrong delete_record, which does not look for the tombstone: deleting a
\* deleted record counts it out once more and reports success
delete_record_no_tombstone_check(db, record_id) ==
    IF ~in_range(db, record_id) THEN [db |-> db, ret |-> Some(FALSE)]
    ELSE IF slot(db, record_id) = None
    THEN [db |-> [db EXCEPT !.active_records = Max(0, @ - 1)],
          ret |-> Some(TRUE)]
    ELSE
      LET record == slot(db, record_id)[1]
      IN [db |->
            [data_store |->
                 [db.data_store EXCEPT ![record_id + 1] = None],
             timestamp_index |->
                 _remove_from_timestamp_index(db.timestamp_index,
                     py_int(record["timestamp"][1]), record_id),
             token_index |->
                 _remove_from_index(db.token_index,
                                    dict_get(record, "token"), record_id),
             wallet_from_index |->
                 _remove_from_index(db.wallet_from_index,
                                    dict_get(record, "wallet_from"),
                                    record_id),
             next_record_id |-> db.next_record_id,
             active_records |-> Max(0, db.active_records - 1)],
          ret |-> Some(TRUE)]

delete_record(db, record_id) ==
    IF ~in_range(db, record_id) THEN [db |-> db, ret |-> Some(FALSE)]
    ELSE IF slot(db, record_id) = None THEN [db |-> db, ret |-> Some(FALSE)]
    ELSE
      LET record == slot(db, record_id)[1]
          ts == py_int(record["timestamp"][1])
          token == dict_get(record, "token")
          wallet_from == dict_get(record, "wallet_from")
      IN [db |->
            [data_store |->
                 [db.data_store EXCEPT ![record_id + 1] = None],
             timestamp_index |->
                 _remove_from_timestamp_index(db.timestamp_index, ts,
                                              record_id),
             token_index |->
                 _remove_from_index(db.token_index, token, record_id),
             wallet_from_index |->
                 _remove_from_index(db.wallet_from_index, wallet_from,
                                    record_id),
             next_record_id |-> db.next_record_id,
             active_records |-> Max(0, db.active_records - 1)],
          ret |-> Some(TRUE)]

\* a wrong update_record, which does not look for the tombstone: the update
\* of a deleted record writes the updates into the slot
update_record_no_tombstone_check(db, record_id, updates) ==
    IF ~in_range(db, record_id) THEN [db |-> db, ret |-> Some(FALSE)]
    ELSE IF dict_get_default(updates, "timestamp", Some(PyInt(0))) = None
    THEN [db |-> db, ret |-> Raise("TypeError")]
    ELSE
      LET record == IF slot(db, record_id) = None THEN <<>>
                    ELSE slot(db, record_id)[1]
          old_ts == py_int(dict_get_default(record, "timestamp",
                                            Some(PyInt(0)))[1])
          old_token == dict_get(record, "token")
          old_wallet_from == dict_get(record, "wallet_from")
          new_ts == py_int(dict_get_default(updates, "timestamp",
                                            Some(PyInt(old_ts)))[1])
          new_token == dict_get_default(updates, "token", old_token)
          new_wallet_from ==
              dict_get_default(updates, "wallet_from", old_wallet_from)
          record1 ==
              dict_set(dict_set(dict_set(dict_update(record, updates),
                  "timestamp", Some(PyInt(new_ts))),
                  "token", new_token),
                  "wallet_from", new_wallet_from)
      IN [db |->
            [data_store |->
                 [db.data_store EXCEPT ![record_id + 1] = Some(record1)],
             timestamp_index |->
                 IF new_ts # old_ts
                 THEN _add_to_timestamp_index(
                          _remove_from_timestamp_index(db.timestamp_index,
                                                       old_ts, record_id),
                          new_ts, record_id)
                 ELSE db.timestamp_index,
             token_index |->
                 IF new_token # old_token
                 THEN _add_to_index(
                          _remove_from_index(db.token_index, old_token,
                                             record_id),
                          new_token, record_id)
                 ELSE db.token_index,
             wallet_from_index |->
                 IF new_wallet_from # old_wallet_from
                 THEN _add_to_index(
                          _remove_from_index(db.wallet_from_index,
                                             old_wallet_from, record_id),
                          new_wallet_from, record_id)
                 ELSE db.wallet_from_index,
             next_record_id |-> db.next_record_id,
             active_records |-> db.active_records],
          ret |-> Some(TRUE)]

update_record(db, record_id, updates) ==
    IF ~in_range(db, record_id) THEN [db |-> db, ret |-> Some(FALSE)]
    ELSE IF slot(db, record_id) = None THEN [db |-> db, ret |-> Some(FALSE)]
    ELSE IF dict_get_default(updates, "timestamp", Some(PyInt(0))) = None
    THEN [db |-> db, ret |-> Raise("TypeError")]
    ELSE
      LET record == slot(db, record_id)[1]
          old_ts == py_int(dict_get_default(record, "timestamp",
                                            Some(PyInt(0)))[1])
          old_token == dict_get(record, "token")
          old_wallet_from == dict_get(record, "wallet_from")
          new_ts == py_int(dict_get_default(updates, "timestamp",
                                            Some(PyInt(old_ts)))[1])
          new_token == dict_get_default(updates, "token", old_token)
          new_wallet_from ==
              dict_get_default(updates, "wallet_from", old_wallet_from)
          record1 ==
              dict_set(dict_set(dict_set(dict_update(record, updates),
                  "timestamp", Some(PyInt(new_ts))),
                  "token", new_token),
                  "wallet_from", new_wallet_from)
      IN [db |->
            [data_store |->
                 [db.data_store EXCEPT ![record_id + 1] = Some(record1)],
             timestamp_index |->
                 IF new_ts # old_ts
                 THEN _add_to_timestamp_index(
                          _remove_from_timestamp_index(db.timestamp_index,
                                                       old_ts, record_id),
                          new_ts, record_id)
                 ELSE db.timestamp_index,
             token_index |->
                 IF new_token # old_token
                 THEN _add_to_index(
                          _remove_from_index(db.token_index, old_token,
                                             record_id),
                          new_token, record_id)
                 ELSE db.token_index,
             wallet_from_index |->
                 IF new_wallet_from # old_wallet_from
                 THEN _add_to_index(
                          _remove_from_index(db.wallet_from_index,
                                             old_wallet_from, record_id),
                          new_wallet_from, record_id)
                 ELSE db.wallet_from_index,
             next_record_id |-> db.next_record_id,
             active_records |-> db.active_records],
          ret |-> Some(TRUE)]

\* the loop shared by the lookups: the records of the ids of a bucket that
\* are in range and not tombstoned, in bucket order
RECURSIVE collect(_, _)
collect(db, record_ids) ==
    IF record_ids = <<>> THEN <<>>
    ELSE LET rid == Head(record_ids)
         IN (IF in_range(db, rid) /\ slot(db, rid) # None THEN <<rid>>
             ELSE <<>>)
            \o collect(db, Tail(record_ids))

\* a wrong get_record_by_timestamp, which returns the latest record
get_record_by_timestamp_latest(db, timestamp) ==
    LET record_ids == get(db.timestamp_index, timestamp)
    IN IF record_ids = None THEN None
       ELSE IF collect(db, record_ids[1]) = <<>> THEN None
       ELSE Some(collect(db, record_ids[1])[Len(collect(db, record_ids[1]))])

\* returns None or Some(the first record)
get_record_by_timestamp(db, timestamp) ==
    LET record_ids == get(db.timestamp_index, timestamp)
    IN IF record_ids = None THEN None
       ELSE IF collect(db, record_ids[1]) = <<>> THEN None
       ELSE Some(Head(collect(db, record_ids[1])))

get_records_by_timestamp(db, timestamp) ==
    LET record_ids == get(db.timestamp_index, timestamp)
    IN IF record_ids = None THEN <<>> ELSE collect(db, record_ids[1])

_collect_by_index(db, index, key) ==
    LET record_ids == get(index, key)
    IN IF record_ids = None THEN <<>> ELSE collect(db, record_ids[1])

get_records_by_token(db, token) ==
    _collect_by_index(db, db.token_index, token)

get_records_by_wallet_sender(db, wallet_id) ==
    _collect_by_index(db, db.wallet_from_index, wallet_id)

\* the outer loop of range_query_by_timestamp over the buckets of sub_map
RECURSIVE range_query_loop(_, _)
range_query_loop(db, buckets) ==
    IF buckets = <<>> THEN <<>>
    ELSE collect(db, Head(buckets)) \o range_query_loop(db, Tail(buckets))

range_query_by_timestamp(db, start_ts, end_ts) ==
    range_query_loop(db, sub_map(db.timestamp_index, start_ts, end_ts))

----------------------------------------------------------------------------
(* CryptoGraph.build_graph_from_db (core/graph.py) and _iter_amounts       *)
(* (app.py).  A Python dict keeps its keys in insertion order: the graph's *)
(* dicts are sequences of entries [k, v].  Amounts are whole numbers.      *)

\* the empty string, as a token or wallet
EmptyStr == 0

\* str.strip(): the strings of the model carry no surrounding white space
strip(x) == x

\* float(x) of a number
py_float(x) == x

od_has(d, k) == \E i \in DOMAIN d : d[i].k = k
od_get(d, k) == d[CHOOSE i \in DOMAIN d : d[i].k = k].v
od_set(d, k, v) ==
    IF od_has(d, k)
    THEN [i \in DOMAIN d |-> IF d[i].k = k THEN [k |-> k, v |-> v] ELSE d[i]]
    ELSE Append(d, [k |-> k, v |-> v])

\* self.graph[u], self.wallet_token_counts[u]: a defaultdict creates the
\* missing entry on access
od_touch(d, k, default) == IF od_has(d, k) THEN d ELSE od_set(d, k, default)

\* d[u][t] += x on a defaultdict of defaultdicts
od_add2(d, u, t, x) ==
    LET d1 == od_touch(d, u, <<>>)
        inner == od_touch(od_get(d1, u), t, 0)
    IN od_set(d1, u, od_set(inner, t, od_get(inner, t) + x))

CryptoGraph ==
    [graph |-> <<>>, wallet_token_counts |-> <<>>,
     wallet_token_volume |-> <<>>]

\* a wrong loop body, which directs the edge from the receiver to the sender
build_graph_step_reversed(g, rec) ==
    IF rec = None THEN g
    ELSE
      LET u == dict_get(rec[1], "wallet_to")
          v == dict_get(rec[1], "wallet_from")
          tok == dict_get(rec[1], "token")
          token == strip(IF tok = None THEN EmptyStr ELSE tok[1])
          volume == py_float(dict_get_default(rec[1], "volume", Some(0))[1])
      IN IF u = None \/ u = Some(EmptyStr) \/ v = None \/ v = Some(EmptyStr)
         THEN g
         ELSE
           LET c1 == od_add2(od_add2(g.wallet_token_counts, u[1], token, 1),
                             v[1], token, 1)
               v1 == od_add2(od_add2(g.wallet_token_volume, u[1], token,
                                     volume),
                             v[1], token, volume)
               g1 == od_touch(g.graph, u[1], <<>>)
               adj == od_touch(od_get(g1, u[1]), v[1],
                               [count |-> 0, total_volume |-> 0])
               e == od_get(adj, v[1])
               adj1 == od_set(adj, v[1],
                              [count |-> e.count + 1,
                               total_volume |-> e.total_volume + volume])
           IN [graph |-> od_set(g1, u[1], adj1),
               wallet_token_counts |-> c1,
               wallet_token_volume |-> v1]

\* the body of the for loop of build_graph_from_db for one slot
build_graph_step(g, rec) ==
    IF rec = None THEN g
    ELSE
      LET u == dict_get(rec[1], "wallet_from")
          v == dict_get(rec[1], "wallet_to")
          tok == dict_get(rec[1], "token")
          token == strip(IF tok = None THEN EmptyStr ELSE tok[1])
          volume == py_float(dict_get_default(rec[1], "volume", Some(0))[1])
      IN IF u = None \/ u = Some(EmptyStr) \/ v = None \/ v = Some(EmptyStr)
         THEN g
         ELSE
           LET c1 == od_add2(od_add2(g.wallet_token_counts, u[1], token, 1),
                             v[1], token, 1)
               v1 == od_add2(od_add2(g.wallet_token_volume, u[1], token,
                                     volume),
                             v[1], token, volume)
               g1 == od_touch(g.graph, u[1], <<>>)
               adj == od_touch(od_get(g1, u[1]), v[1],
                               [count |-> 0, total_volume |-> 0])
               e == od_get(adj, v[1])
               adj1 == od_set(adj, v[1],
                              [count |-> e.count + 1,
                               total_volume |-> e.total_volume + volume])
           IN [graph |-> od_set(g1, u[1], adj1),
               wallet_token_counts |-> c1,
               wallet_token_volume |-> v1]

RECURSIVE build_graph_loop(_, _, _)
build_graph_loop(data, i, g) ==
    IF i > Len(data) THEN g
    ELSE build_graph_loop(data, i + 1, build_graph_step(g, data[i]))

\* the three dicts are cleared, then filled from db.data_store
build_graph_from_db(db) == build_graph_loop(db.data_store, 1, CryptoGraph)

\* a wrong neighbors, which gives the edges that arrive at node
neighbors_incoming(g, node) ==
    LET sends(e) == od_has(e.v, node)
        senders == SelectSeq(g.graph, sends)
    IN [i \in DOMAIN senders |->
           [k |-> senders[i].k, v |-> od_get(senders[i].v, node)]]

\* neighbors(node): self.graph.get(node, {})
neighbors(g, node) == IF od_has(g.graph, node) THEN od_get(g.graph, node) ELSE <<>>

\* _iter_amounts: the values yielded, in order. A filter is None or Some(x).
RECURSIVE _iter_amounts_loop(_, _, _, _, _, _)
_iter_amounts_loop(data, i, sym, st, sw, rw) ==
    IF i > Len(data) THEN <<>>
    ELSE
      LET rec == data[i]
          rest == _iter_amounts_loop(data, i + 1, sym, st, sw, rw)
      IN IF rec = None THEN rest
         ELSE IF dict_get_default(rec[1], "__deleted__", Some(FALSE))
                   = Some(TRUE)
              THEN rest
         ELSE IF sym # EmptyStr /\ dict_get(rec[1], "token") # Some(sym)
              THEN rest
         ELSE IF st # EmptyStr /\ dict_get(rec[1], "status") # Some(st)
              THEN rest
         ELSE IF sw # EmptyStr /\ dict_get(rec[1], "wallet_from") # Some(sw)
              THEN rest
         ELSE IF rw # EmptyStr /\ dict_get(rec[1], "wallet_to") # Some(rw)
              THEN rest
         ELSE IF dict_get(rec[1], "price") = None THEN rest
         ELSE <<py_float(dict_get(rec[1], "price")[1])>> \o rest

\* (x or "").strip()
or_empty(x) == strip(IF x = None THEN EmptyStr ELSE x[1])

\* a wrong generator, which does not look at the receiver
_iter_amounts_any_receiver(db, symbol, status, sender_wallet, receiver_wallet) ==
    _iter_amounts_loop(db.data_store, 1, or_empty(symbol), or_empty(status),
                       or_empty(sender_wallet), EmptyStr)

_iter_amounts(db, symbol, status, sender_wallet, receiver_wallet) ==
    _iter_amounts_loop(db.data_store, 1, or_empty(symbol), or_empty(status),
                       or_empty(sender_wallet), or_empty(receiver_wallet))

----------------------------------------------------------------------------
(* amount_usd_analytics (app.py).  The amounts are whole numbers; a float   *)
(* that is not whole (mean, M2) is the exact fraction <<numerator,          *)
(* denominator>> in lowest terms with a positive denominator: the rounding  *)
(* of floating-point arithmetic is left out.  random.Random(1337) is        *)
(* modelled by the integers it hands out: draws[n] is the value of          *)
(* rng.randint(1, n), any integer of 1..n.                                  *)

RECURSIVE GCD(_, _)
GCD(a, b) == IF b = 0 THEN a ELSE GCD(b, a % b)

\* the fraction n / d (d > 0) in lowest terms
Frac(n, d) == <<n \div GCD(Abs(n), d), d \div GCD(Abs(n), d)>>
frac_add(a, b) == Frac(a[1] * b[2] + b[1] * a[2], a[2] * b[2])
frac_sub(a, b) == Frac(a[1] * b[2] - b[1] * a[2], a[2] * b[2])
frac_mul(a, b) == Frac(a[1] * b[1], a[2] * b[2])

\* int(round(num / den)), num >= 0: Python rounds a half to the even
\* neighbour
py_round(num, den) ==
    IF 2 * (num % den) < den THEN num \div den
    ELSE IF 2 * (num % den) > den THEN (num \div den) + 1
    ELSE IF (num \div den) % 2 = 0 THEN num \div den
    ELSE (num \div den) + 1

\* the locals of amount_usd_analytics before the loop
analytics_locals ==
    [n |-> 0, mean |-> <<0, 1>>, M2 |-> <<0, 1>>, s |-> 0, vmin |-> None,
     vmax |-> None, sample |-> <<>>]

\* a wrong loop body, which adds the square of delta to M2
analytics_turn_delta_squared(a, x, sample_size, draws) ==
    LET n == a.n + 1
        delta == frac_sub(<<x, 1>>, a.mean)
        mean == frac_add(a.mean, frac_mul(delta, <<1, n>>))
    IN [n |-> n,
        s |-> a.s + x,
        vmin |-> IF a.vmin = None THEN Some(x) ELSE Some(Min(a.vmin[1], x)),
        vmax |-> IF a.vmax = None THEN Some(x) ELSE Some(Max(a.vmax[1], x)),
        mean |-> mean,
        M2 |-> frac_add(a.M2, frac_mul(delta, delta)),
        sample |->
            IF Len(a.sample) < sample_size THEN Append(a.sample, x)
            ELSE IF draws[n] <= sample_size
            THEN [a.sample EXCEPT ![draws[n]] = x]
            ELSE a.sample]

\* a wrong loop body, which leaves the last slot of a full sample alone
analytics_turn_spares_last(a, x, sample_size, draws) ==
    LET n == a.n + 1
        delta == frac_sub(<<x, 1>>, a.mean)
        mean == frac_add(a.mean, frac_mul(delta, <<1, n>>))
        delta2 == frac_sub(<<x, 1>>, mean)
    IN [n |-> n,
        s |-> a.s + x,
        vmin |-> IF a.vmin = None THEN Some(x) ELSE Some(Min(a.vmin[1], x)),
        vmax |-> IF a.vmax = None THEN Some(x) ELSE Some(Max(a.vmax[1], x)),
        mean |-> mean,
        M2 |-> frac_add(a.M2, frac_mul(delta, delta2)),
        sample |->
            IF Len(a.sample) < sample_size THEN Append(a.sample, x)
            ELSE IF draws[n] < sample_size
            THEN [a.sample EXCEPT ![draws[n]] = x]
            ELSE a.sample]

\* a wrong loop body, which keeps every value in the sample
analytics_turn_keeps_all(a, x, sample_size, draws) ==
    LET n == a.n + 1
        delta == frac_sub(<<x, 1>>, a.mean)
        mean == frac_add(a.mean, frac_mul(delta, <<1, n>>))
        delta2 == frac_sub(<<x, 1>>, mean)
    IN [n |-> n,
        s |-> a.s + x,
        vmin |-> IF a.vmin = None THEN Some(x) ELSE Some(Min(a.vmin[1], x)),
        vmax |-> IF a.vmax = None THEN Some(x) ELSE Some(Max(a.vmax[1], x)),
        mean |-> mean,
        M2 |-> frac_add(a.M2, frac_mul(delta, delta2)),
        sample |-> Append(a.sample, x)]

\* the body of the for loop for the value x, a being the locals before it
analytics_turn(a, x, sample_size, draws) ==
    LET n == a.n + 1
        delta == frac_sub(<<x, 1>>, a.mean)
        mean == frac_add(a.mean, frac_mul(delta, <<1, n>>))
        delta2 == frac_sub(<<x, 1>>, mean)
    IN [n |-> n,
        s |-> a.s + x,
        vmin |-> IF a.vmin = None THEN Some(x) ELSE Some(Min(a.vmin[1], x)),
        vmax |-> IF a.vmax = None THEN Some(x) ELSE Some(Max(a.vmax[1], x)),
        mean |-> mean,
        M2 |-> frac_add(a.M2, frac_mul(delta, delta2)),
        sample |->
            IF Len(a.sample) < sample_size THEN Append(a.sample, x)
            ELSE IF draws[n] <= sample_size
            THEN [a.sample EXCEPT ![draws[n]] = x]
            ELSE a.sample]

RECURSIVE analytics_loop(_, _, _, _, _)
analytics_loop(xs, i, a, sample_size, draws) ==
    IF i > Len(xs) THEN a
    ELSE analytics_loop(xs, i + 1,
                        analytics_turn(a, xs[i], sample_size, draws),
                        sample_size, draws)

\* a wrong q, which cuts the index off instead of rounding it
q_truncating(sample_sorted, hundredths) ==
    IF sample_sorted = <<>> THEN 0
    ELSE sample_sorted[
             1 + Max(0, Min(Len(sample_sorted) - 1,
                            ((Len(sample_sorted) - 1) * hundredths)
                                \div 100))]

\* q(p) for p = hundredths / 100
q(sample_sorted, hundredths) ==
    IF sample_sorted = <<>> THEN 0
    ELSE sample_sorted[
             1 + Max(0, Min(Len(sample_sorted) - 1,
                            py_round((Len(sample_sorted) - 1) * hundredths,
                                     100)))]

\* a wrong result, which has numeric fields when no value was seen
analytics_result_no_sentinel(a, filters) ==
    [count |-> a.n, sum |-> a.s, mean |-> a.mean, filters |-> filters,
     message |-> "No matching records."]

\* the dict returned for the locals a after the loop; std_pop is the square
\* root of variance_pop and is kept as that, approx_note is the sample
\* size it quotes
analytics_result(a, filters) ==
    IF a.n = 0
    THEN [count |-> 0, filters |-> filters,
          message |-> "No matching records."]
    ELSE \* sorted(sample)
         LET ascending(x, y) == x <= y
             sample_sorted == SortSeq(a.sample, ascending)
         IN [count |-> a.n, sum |-> a.s, min |-> a.vmin[1],
             max |-> a.vmax[1], mean |-> a.mean,
             std_pop |-> <<"sqrt", frac_mul(a.M2, <<1, a.n>>)>>,
             approx_percentiles |->
                 [p50 |-> q(sample_sorted, 50), p90 |-> q(sample_sorted, 90),
                  p95 |-> q(sample_sorted, 95), p99 |-> q(sample_sorted, 99)],
             approx_note |-> Len(sample_sorted),
             filters |-> filters]

\* symbol or ""
or_str(x) == IF x = None THEN EmptyStr ELSE x[1]

amount_usd_analytics(db, symbol, status, sender_wallet, receiver_wallet, sample_size, draws) ==
    analytics_result(
        analytics_loop(
            _iter_amounts(db, symbol, status, sender_wallet, receiver_wallet),
            1, analytics_locals, sample_size, draws),
        [crypto_symbol |-> or_str(symbol), status |-> or_str(status),
         sender_wallet |-> or_str(sender_wallet),
         receiver_wallet |-> or_str(receiver_wallet)])

----------------------------------------------------------------------------
(* The stand-alone map: calls and their results *)

Keys == 1..MaxKey
MapKeys == 1..MapKey
Vals == 1..MaxVal
\* SpecAVL stores one and the same value under every key
Unit == {1}

\* a call and its arguments: numbers x and y (0 when not there) and, for
\* insert_record, the record passed
Call(op, x, y) == [op |-> op, x |-> x, y |-> y, rec |-> None]
CallWith(op, record) == [op |-> op, x |-> 0, y |-> 0, rec |-> Some(record)]

InitMap ==
    /\ tree = AVLTreeMap
    /\ lastOp = Call("init", 0, 0)
    /\ ret = None

IdleDb ==
    /\ data_store = <<>>
    /\ timestamp_index = AVLTreeMap
    /\ token_index = AVLTreeMap
    /\ wallet_from_index = AVLTreeMap
    /\ next_record_id = 0
    /\ active_records = 0

\* the service has not been started: the module-level g and STATE of app.py,
\* and no request is being served
Idle == <<"idle", 0>>
IdleApp ==
    /\ app_g = CryptoGraph
    /\ app_STATE = [db_loaded |-> FALSE, graph_built |-> FALSE]
    /\ pc = Idle

\* m.put(k, v)
MapPut(K, V) ==
    \E k \in K, v \in V :
        \E r \in {put(tree, k, v)} :
           /\ tree' = Collect(r.t)
           /\ lastOp' = Call("put", k, v)
           /\ ret' = r.ret
           /\ UNCHANGED <<dbVars, appVars>>

\* how many children the node holding k has (-1: no such node); recorded
\* with a remove call
ChildrenOf(t, k) ==
    LET p == _find_position(t, k)[1]
    IN IF p = Nil THEN -1 ELSE num_children(t, p)

\* m.remove(k)
MapRemove(K) ==
    \E k \in K :
        \E r \in {remove(tree, k)} :
           /\ tree' = Collect(r.t)
           /\ lastOp' = Call("remove", k, ChildrenOf(tree, k))
           /\ ret' = r.ret
           /\ UNCHANGED <<dbVars, appVars>>

\* m.get(k)
MapGet(K) ==
    \E k \in K :
        /\ lastOp' = Call("get", k, 0)
        /\ ret' = get(tree, k)
        /\ UNCHANGED <<tree, dbVars, appVars>>

\* list(m.sub_map(k1, k2))
MapSubMap(K) ==
    \E k1 \in K, k2 \in K :
        /\ lastOp' = Call("sub_map", k1, k2)
        /\ ret' = sub_map(tree, k1, k2)
        /\ UNCHANGED <<tree, dbVars, appVars>>

\* puts and removes over 1..MaxKey
InitAVL == InitMap /\ IdleDb /\ IdleApp
NextAVL == MapPut(Keys, Unit) \/ MapRemove(Keys)
SpecAVL == InitAVL /\ [][NextAVL]_vars

\* every map operation over 1..MapKey; lookups and ranges also probe one
\* key below and one above
Probes == 0..(MapKey + 1)
NextMap ==
    \/ MapPut(MapKeys, Vals)
    \/ MapRemove(Probes)
    \/ MapGet(Probes)
    \/ MapSubMap(Probes)
SpecMap == InitAVL /\ [][NextMap]_vars

\* The restructures of one put or remove

\* the tree and the position that put(k, v) hands to _rebalance_avl: the
\* new leaf and the tree holding it; position Nil when k is present and
\* only its value is replaced
put_rebalances(t, k, v) ==
    LET entry == _MapEntry(k, v)
    IN IF is_empty(t)
       THEN LET a == add_root(t, entry)
            IN [t |-> [a.t EXCEPT !.size = @ + 1], p |-> a.p]
       ELSE LET f == _find_position(t, k)
            IN IF f[1] # Nil THEN [t |-> t, p |-> Nil]
               ELSE LET a == IF k < get_key(t, f[2])
                             THEN add_left(t, f[2], entry)
                             ELSE add_right(t, f[2], entry)
                    IN [t |-> [a.t EXCEPT !.size = @ + 1], p |-> a.p]

\* the tree and the position that remove(k) hands to _rebalance_avl: the
\* parent of the node that was unlinked; Nil when k is absent
remove_rebalances(t, k) ==
    LET p0 == _find_position(t, k)[1]
    IN IF p0 = Nil THEN [t |-> t, p |-> Nil]
       ELSE
         LET two == num_children(t, p0) = 2
             successor == _subtree_first_position(t, get_right(t, p0))
             t1 == IF two
                   THEN set_element(t, p0,
                            Some(_MapEntry(get_key(t, successor),
                                           get_value(t, successor))))
                   ELSE t
             p == IF two THEN successor ELSE p0
             r == tree_remove(t1, p)
         IN [t |-> [r.t EXCEPT !.size = @ - 1], p |-> get_parent(t1, p)]

\* the call of _rebalance_avl made by the call c of put or remove on t
Rebalances(t, c) ==
    IF c.op = "put" THEN put_rebalances(t, c.x, c.y)
    ELSE IF c.op = "remove" THEN remove_rebalances(t, c.x)
    ELSE [t |-> t, p |-> Nil]

\* the subtree roots that the restructures of _rebalance_avl(t, p) return,
\* each with the tree as it is once the three heights are updated: a
\* sequence of [t, p], in the order of the loop
RECURSIVE Restructures(_, _)
Restructures(t, p) ==
    IF p = Nil THEN <<>>
    ELSE LET old_height == _get_height(t, p)
             t1 == _update_height(t, p)
         IN IF ~_is_balanced(t1, p)
            THEN LET r == restructure(t1,
                              _taller_child(t1, _taller_child(t1, p)))
                     t2 == rebalance_heights(r.t, r.p)
                 IN <<[t |-> t2, p |-> r.p]>> \o
                    (IF _get_height(t2, r.p) = old_height THEN <<>>
                     ELSE Restructures(t2, get_parent(t2, r.p)))
            ELSE IF _get_height(t1, p) = old_height THEN <<>>
                 ELSE Restructures(t1, get_parent(t1, p))

RestructuresOf(t, c) == Restructures(Rebalances(t, c).t, Rebalances(t, c).p)

\* m.put(k, v), recorded with the number of restructures it performed
MapPutCounted(K, V) ==
    \E k \in K, v \in V :
        \E r \in {put(tree, k, v)} :
           /\ tree' = Collect(r.t)
           /\ lastOp' = [Call("put", k, v) EXCEPT !.rec =
                            Some([restructures |->
                                Len(RestructuresOf(tree, Call("put", k, v)))])]
           /\ ret' = r.ret
           /\ UNCHANGED <<dbVars, appVars>>

\* puts alone, over 1..MaxKey, from an empty map
NextPuts == MapPutCounted(Keys, Unit)
SpecPuts == InitAVL /\ [][NextPuts]_vars

----------------------------------------------------------------------------
(* The store: calls and their results *)

Timestamps == 1..MaxTs
Tokens == 1..MaxToken
Wallets == 1..MaxWallet
\* the ids passed to delete_record and update_record: every slot there can
\* be, one below and one above
Ids == (-1)..MaxRecords

SomeOf(S) == {Some(x) : x \in S}

\* the records inserted, typed as the importer delivers them, each with
\* volume 1 and price 1; some carry the timestamp as a string, one has None
\* for it and one lacks it
FullRecords ==
    {[timestamp |-> Some(PyInt(ts)), token |-> tok, wallet_from |-> wf,
      wallet_to |-> wt, volume |-> Some(1), price |-> Some(1)] :
        ts \in Timestamps, tok \in SomeOf(Tokens),
        wf \in SomeOf(Wallets), wt \in SomeOf(Wallets)}
StringTimestampRecords ==
    {[timestamp |-> Some(PyStr(ts)), token |-> Some(1),
      wallet_from |-> Some(1), wallet_to |-> Some(1),
      volume |-> Some(1), price |-> Some(1)] : ts \in Timestamps}
NoneTimestampRecords ==
    {[timestamp |-> None, token |-> Some(1), wallet_from |-> Some(1),
      wallet_to |-> Some(1), volume |-> Some(1), price |-> Some(1)]}
NoTimestampRecords ==
    {[token |-> Some(1), wallet_from |-> Some(1), wallet_to |-> Some(1),
      volume |-> Some(1), price |-> Some(1)]}
InsertRecords ==
    FullRecords \cup StringTimestampRecords \cup NoneTimestampRecords
        \cup NoTimestampRecords

\* the updates passed: at most MaxUpdateFields of the fields below; an
\* update may set the token to None, and may pass None for the timestamp
UpdateFields == {"timestamp", "token", "wallet_from"}
TimestampValues ==
    {Some(PyInt(ts)) : ts \in Timestamps}
        \cup {Some(PyStr(ts)) : ts \in Timestamps} \cup {None}
FieldValues(f) ==
    IF f = "timestamp" THEN TimestampValues
    ELSE IF f = "token" THEN SomeOf(Tokens) \cup {None}
    ELSE SomeOf(Wallets)
\* the dicts over the fields F
RECURSIVE DictsOver(_)
DictsOver(F) ==
    IF F = {} THEN {<<>>}
    ELSE LET f == CHOOSE f \in F : TRUE
         IN {dict_set(d, f, v) : d \in DictsOver(F \ {f}),
                                 v \in FieldValues(f)}
Updates ==
    UNION {DictsOver(F) : F \in {G \in SUBSET UpdateFields :
                                    Cardinality(G) <= MaxUpdateFields}}

DB ==
    [data_store |-> data_store,
     timestamp_index |-> timestamp_index,
     token_index |-> token_index,
     wallet_from_index |-> wallet_from_index,
     next_record_id |-> next_record_id,
     active_records |-> active_records]

\* the store after a call; the garbage of the three trees is collected
SetDB(db) ==
    /\ data_store' = db.data_store
    /\ timestamp_index' = Collect(db.timestamp_index)
    /\ token_index' = Collect(db.token_index)
    /\ wallet_from_index' = Collect(db.wallet_from_index)
    /\ next_record_id' = db.next_record_id
    /\ active_records' = db.active_records

InitStore ==
    /\ data_store = CryptoDB.data_store
    /\ timestamp_index = CryptoDB.timestamp_index
    /\ token_index = CryptoDB.token_index
    /\ wallet_from_index = CryptoDB.wallet_from_index
    /\ next_record_id = CryptoDB.next_record_id
    /\ active_records = CryptoDB.active_records
    /\ tree = AVLTreeMap
    /\ lastOp = Call("init", 0, 0)
    /\ ret = None
    /\ IdleApp

\* db.insert_record(record); the store holds at most MaxRecords slots
InsertRecord ==
    \E record \in InsertRecords :
        /\ Len(data_store) < MaxRecords
        /\ \E r \in {insert_record(DB, record)} :
              /\ SetDB(r.db)
              /\ lastOp' = CallWith("insert_record", record)
              /\ ret' = r.ret
        /\ UNCHANGED <<tree, appVars>>

\* db.delete_record(record_id)
DeleteRecord ==
    \E record_id \in Ids :
        /\ \E r \in {delete_record(DB, record_id)} :
              /\ SetDB(r.db)
              /\ lastOp' = Call("delete_record", record_id, 0)
              /\ ret' = r.ret
        /\ UNCHANGED <<tree, appVars>>

\* db.update_record(record_id, updates)
UpdateRecord ==
    \E record_id \in Ids, updates \in Updates :
        /\ \E r \in {update_record(DB, record_id, updates)} :
              /\ SetDB(r.db)
              /\ lastOp' = Call("update_record", record_id, 0)
              /\ ret' = r.ret
        /\ UNCHANGED <<tree, appVars>>

NextStore == InsertRecord \/ DeleteRecord \/ UpdateRecord
SpecStore == InitStore /\ [][NextStore]_vars

----------------------------------------------------------------------------
(* The store with buckets of up to OrdRecords ids *)

\* the records inserted: integer timestamps, one receiver, volume and price 1
OrdInserts ==
    {[timestamp |-> Some(PyInt(ts)), token |-> tok, wallet_from |-> wf,
      wallet_to |-> Some(1), volume |-> Some(1), price |-> Some(1)] :
        ts \in 1..OrdTs, tok \in SomeOf(1..OrdToken),
        wf \in SomeOf(1..OrdWallet)}

\* the updates passed: one indexed field each; the token and the sender
\* wallet may become None
OrdUpdates ==
    {dict_set(<<>>, "timestamp", Some(PyInt(ts))) : ts \in 1..OrdTs}
        \cup {dict_set(<<>>, "token", tok) :
                 tok \in SomeOf(1..OrdToken) \cup {None}}
        \cup {dict_set(<<>>, "wallet_from", wf) :
                 wf \in SomeOf(1..OrdWallet) \cup {None}}

\* db.insert_record(record); the store holds at most OrdRecords slots
OrdInsertRecord ==
    \E record \in OrdInserts :
        /\ Len(data_store) < OrdRecords
        /\ \E r \in {insert_record(DB, record)} :
              /\ SetDB(r.db)
              /\ lastOp' = CallWith("insert_record", record)
              /\ ret' = r.ret
        /\ UNCHANGED <<tree, appVars>>

\* db.delete_record(record_id)
OrdDeleteRecord ==
    \E record_id \in 0..(OrdRecords - 1) :
        /\ \E r \in {delete_record(DB, record_id)} :
              /\ SetDB(r.db)
              /\ lastOp' = Call("delete_record", record_id, 0)
              /\ ret' = r.ret
        /\ UNCHANGED <<tree, appVars>>

\* db.update_record(record_id, updates)
OrdUpdateRecord ==
    \E record_id \in 0..(OrdRecords - 1), updates \in OrdUpdates :
        /\ \E r \in {update_record(DB, record_id, updates)} :
              /\ SetDB(r.db)
              /\ lastOp' = Call("update_record", record_id, 0)
              /\ ret' = r.ret
        /\ UNCHANGED <<tree, appVars>>

\* the ids passed are those of the slots there can be
NextOrder == OrdInsertRecord \/ OrdDeleteRecord \/ OrdUpdateRecord
SpecOrder == InitStore /\ [][NextOrder]_vars

----------------------------------------------------------------------------
(* The service (app.py): one request at a time *)

\* A time string: DateTime(n) is the "YYYY-MM-DD HH:MM:SS" of epoch second
\* n, Digits(n) the decimal string of n.
DateTime(n) == <<"datetime", n>>
Digits(n) == <<"digits", n>>

\* ts_raw is None or Some(string); None, "" and digit strings are refused
parse_timestamp_str_only(ts_raw) ==
    IF ts_raw = None THEN None
    ELSE IF ts_raw[1][1] = "datetime" THEN Some(ts_raw[1][2])
    ELSE None

\* update_record_by_timestamp and delete_record_by_timestamp are called by
\* the handlers but are not methods of core/storage.py: the first record
\* still active at the timestamp is updated, or deleted
update_record_by_timestamp(db, ts, updates) ==
    IF get_record_by_timestamp(db, ts) = None
    THEN [db |-> db, ret |-> Some(FALSE)]
    ELSE update_record(db, get_record_by_timestamp(db, ts)[1], updates)

delete_record_by_timestamp(db, ts) ==
    IF get_record_by_timestamp(db, ts) = None
    THEN [db |-> db, ret |-> Some(FALSE)]
    ELSE delete_record(db, get_record_by_timestamp(db, ts)[1])

\* the fields api_db_insert requires of a body
Required ==
    {"tx_id", "timestamp_str", "crypto_symbol", "amount_usd", "fee_usd",
     "sender_wallet", "receiver_wallet", "status"}

\* a body posted to /api/db/insert: the required fields and the fields the
\* store and the graph read; the transfer of timestamp ts has volume (fee)
\* ts and price (amount) ts + 1
Body(ts, wf, wt) ==
    [tx_id |-> Some(0), timestamp_str |-> Some(DateTime(ts)),
     crypto_symbol |-> Some(1), amount_usd |-> Some(ts + 1),
     fee_usd |-> Some(ts), sender_wallet |-> wf, receiver_wallet |-> wt,
     status |-> Some(1), timestamp |-> Some(PyInt(ts)), token |-> Some(1),
     wallet_from |-> wf, wallet_to |-> wt, volume |-> Some(ts),
     price |-> Some(ts + 1)]

\* b without the field f
Lacking(b, f) == [k \in DOMAIN b \ {f} |-> b[k]]

\* the bodies posted: transfers between the wallets; one without receiver,
\* one with the empty string for it, one without "status", one whose
\* timestamp_str is a digit string and one without "timestamp"
AppBodies ==
    {Body(ts, wf, wt) : ts \in 1..AppTs, wf \in SomeOf(1..AppWallet),
                        wt \in SomeOf(1..AppWallet)}
        \cup {Lacking(Body(1, Some(1), Some(1)), "wallet_to"),
              [Body(1, Some(1), Some(1)) EXCEPT !.wallet_to = Some(EmptyStr)],
              Lacking(Body(1, Some(1), Some(1)), "status"),
              [Body(1, Some(1), Some(1)) EXCEPT
                  !.timestamp_str = Some(Digits(1))],
              Lacking(Body(1, Some(1), Some(1)), "timestamp")}

\* the timestamps of the URLs: every timestamp, one more, and a digit string
AppTimes == {DateTime(ts) : ts \in 1..(AppTs + 1)} \cup {Digits(1)}

\* the bodies posted to /api/db/update_by_timestamp: a new receiver, a new
\* sender, or nothing
AppUpdates ==
    {dict_set(<<>>, "wallet_to", wt) : wt \in SomeOf(1..AppWallet)}
        \cup {dict_set(<<>>, "wallet_from", wf) : wf \in SomeOf(1..AppWallet)}
        \cup {<<>>}

\* a call with a time string: x is its number, y is 1 for a date and time
CallAt(op, ts, updates) ==
    [op |-> op, x |-> ts[2], y |-> IF ts[1] = "datetime" THEN 1 ELSE 0,
     rec |-> updates]

\* the record ingest_data makes of a CSV row: a transfer of wallet 1 to
\* wallet 2 at timestamp 1, with fee_usd 1 as volume and amount_usd 2 as
\* price
IngestedRow ==
    [timestamp |-> Some(PyInt(1)), timestamp_raw |-> Some(Digits(1)),
     token |-> Some(1), price |-> Some(2), volume |-> Some(1),
     wallet_from |-> Some(1), wallet_to |-> Some(2), status |-> Some(1)]

\* warm_start, run once before the service takes requests: the CSV file is
\* not found, or its rows (none, or one) are ingested and the graph is
\* built
warm_start ==
    /\ pc = Idle /\ lastOp.op = "init"
    /\ \E found \in BOOLEAN, rows \in 0..1 :
          /\ lastOp' = Call("warm_start", rows, 0)
          /\ IF ~found
             THEN /\ ret' = <<404, 0>>
                  /\ UNCHANGED <<dbVars, appVars>>
             ELSE \E r \in {IF rows = 0 THEN [db |-> DB, ret |-> None]
                             ELSE insert_record(DB, IngestedRow)} :
                     /\ SetDB(r.db)
                     /\ ret' = <<200, Len(r.db.data_store)>>
                     /\ app_g' = build_graph_from_db(r.db)
                     /\ app_STATE' =
                           [db_loaded |-> TRUE, graph_built |-> TRUE]
                     /\ UNCHANGED pc
    /\ UNCHANGED tree

\* POST /api/db/insert with the body data; the model posts while the store
\* holds fewer than max slots
api_db_insert(bodies, max) ==
    \E data \in bodies :
        /\ pc = Idle /\ Len(data_store) < max
        /\ lastOp' = CallWith("api_db_insert", data)
        /\ IF ~app_STATE.db_loaded
              \/ Required \ DOMAIN data # {}
              \/ parse_timestamp_str_only(data["timestamp_str"]) = None
           THEN /\ ret' = <<400, 0>>
                /\ UNCHANGED <<dbVars, appVars>>
           ELSE \E r \in {insert_record(DB, data)} :
                   /\ SetDB(r.db)
                   /\ IF Len(r.ret) # 1
                      THEN /\ ret' = <<500, 0>>
                           /\ UNCHANGED appVars
                      ELSE /\ ret' = <<200, r.ret[1]>>
                           /\ app_g' = build_graph_from_db(r.db)
                           /\ app_STATE' =
                                 [app_STATE EXCEPT !.graph_built = TRUE]
                           /\ UNCHANGED pc
        /\ UNCHANGED tree

\* POST /api/db/update_by_timestamp/<ts> with the body updates
api_db_update(times, bodies) ==
    \E ts \in times, updates \in bodies :
        /\ pc = Idle
        /\ lastOp' = CallAt("api_db_update", ts, Some(updates))
        /\ IF ~app_STATE.db_loaded
              \/ parse_timestamp_str_only(Some(ts)) = None
              \/ DOMAIN updates = {}
           THEN /\ ret' = <<400, None>>
                /\ UNCHANGED <<dbVars, appVars>>
           ELSE \E r \in {update_record_by_timestamp(DB, ts[2], updates)} :
                   /\ SetDB(r.db)
                   /\ IF Len(r.ret) # 1
                      THEN /\ ret' = <<500, None>>
                           /\ UNCHANGED appVars
                      ELSE IF r.ret = Some(FALSE)
                      THEN /\ ret' = <<404, None>>
                           /\ UNCHANGED appVars
                      ELSE /\ ret' = <<200,
                                        get_record_by_timestamp(r.db, ts[2])>>
                           /\ app_g' = build_graph_from_db(r.db)
                           /\ app_STATE' =
                                 [app_STATE EXCEPT !.graph_built = TRUE]
                           /\ UNCHANGED pc
        /\ UNCHANGED tree

\* a wrong api_db_delete, which does not rebuild the graph
api_db_delete_no_rebuild(times) ==
    \E ts \in times :
        /\ pc = Idle
        /\ lastOp' = CallAt("api_db_delete", ts, None)
        /\ IF ~app_STATE.db_loaded
              \/ parse_timestamp_str_only(Some(ts)) = None
           THEN /\ ret' = <<400, 0>>
                /\ UNCHANGED <<dbVars, appVars>>
           ELSE \E r \in {delete_record_by_timestamp(DB, ts[2])} :
                   /\ SetDB(r.db)
                   /\ IF r.ret = Some(FALSE)
                      THEN /\ ret' = <<404, 0>>
                           /\ UNCHANGED appVars
                      ELSE /\ ret' = <<200, ts[2]>>
                           /\ app_STATE' =
                                 [app_STATE EXCEPT !.graph_built = TRUE]
                           /\ UNCHANGED <<app_g, pc>>
        /\ UNCHANGED tree

\* POST /api/db/delete_by_timestamp/<ts>
api_db_delete(times) ==
    \E ts \in times :
        /\ pc = Idle
        /\ lastOp' = CallAt("api_db_delete", ts, None)
        /\ IF ~app_STATE.db_loaded
              \/ parse_timestamp_str_only(Some(ts)) = None
           THEN /\ ret' = <<400, 0>>
                /\ UNCHANGED <<dbVars, appVars>>
           ELSE \E r \in {delete_record_by_timestamp(DB, ts[2])} :
                   /\ SetDB(r.db)
                   /\ IF r.ret = Some(FALSE)
                      THEN /\ ret' = <<404, 0>>
                           /\ UNCHANGED appVars
                      ELSE /\ ret' = <<200, ts[2]>>
                           /\ app_g' = build_graph_from_db(r.db)
                           /\ app_STATE' =
                                 [app_STATE EXCEPT !.graph_built = TRUE]
                           /\ UNCHANGED pc
        /\ UNCHANGED tree

NextApp ==
    \/ warm_start
    \/ api_db_insert(AppBodies, AppRecords)
    \/ api_db_update(AppTimes, AppUpdates)
    \/ api_db_delete(AppTimes)
SpecApp == InitStore /\ [][NextApp]_vars

----------------------------------------------------------------------------
(* The graph routes *)

\* shortest_path is called by api_shortest_path but is not a method of
\* core/graph.py: a breadth-first search over the outgoing edges, in the
\* order the adjacency dicts list them; queue holds the paths found and
\* not yet extended
RECURSIVE shortest_path_loop(_, _, _, _)
shortest_path_loop(g, dst, queue, visited) ==
    IF queue = <<>> THEN None
    ELSE
      LET path == Head(queue)
          u == path[Len(path)]
          fresh(e) == e.k \notin visited
          found == SelectSeq(neighbors(g, u), fresh)
      IN IF u = dst THEN Some(path)
         ELSE shortest_path_loop(
                  g, dst,
                  Tail(queue)
                      \o [i \in DOMAIN found |-> Append(path, found[i].k)],
                  visited \cup {found[i].k : i \in DOMAIN found})

\* not found (None) when src has no outgoing edge or dst is not reached
shortest_path(g, src, dst) ==
    IF ~od_has(g.graph, src) THEN None
    ELSE shortest_path_loop(g, dst, <<<<src>>>>, {src})

\* the transfers posted: one timestamp, every pair of wallets, and one
\* transfer without receiver
GraphBodies ==
    {Body(1, Some(wf), Some(wt)) : wf \in 1..GraphWallet,
                                   wt \in 1..GraphWallet}
        \cup {Body(1, Some(1), None)}

\* the wallets asked about: every wallet, one that is in no record, and
\* the empty string
AskedWallets == (1..(GraphWallet + 1)) \cup {EmptyStr}

\* GET /api/graph/neighbors/<wallet>?limit=<limit>; the handler takes no
\* lock and waits for no other request
api_neighbors(wallets, limits) ==
    \E wallet \in wallets, limit \in limits :
        /\ lastOp' = Call("api_neighbors", wallet, limit)
        /\ IF ~app_STATE.db_loaded \/ ~app_STATE.graph_built
           THEN ret' = <<400, <<>>>>
           ELSE \E nbrs \in {neighbors(app_g, wallet)} :
                   ret' = <<200,
                            SubSeq(nbrs, 1,
                                   Min(Max(1, Min(200, limit)), Len(nbrs)))>>
        /\ UNCHANGED <<tree, dbVars, appVars>>

\* GET /api/graph/shortest_path?src=<src>&dst=<dst>
api_shortest_path(wallets) ==
    \E src \in wallets, dst \in wallets :
        /\ lastOp' = Call("api_shortest_path", src, dst)
        /\ IF ~app_STATE.db_loaded \/ ~app_STATE.graph_built
              \/ strip(src) = EmptyStr \/ strip(dst) = EmptyStr
           THEN ret' = <<400, <<>>>>
           ELSE \E path \in {shortest_path(app_g, strip(src), strip(dst))} :
                   IF path = None THEN ret' = <<404, <<>>>>
                   ELSE ret' = <<200, path[1]>>
        /\ UNCHANGED <<tree, dbVars, appVars>>

NextGraph ==
    \/ warm_start
    \/ api_db_insert(GraphBodies, GraphRecords)
    \/ api_db_delete({DateTime(1)})
    \/ api_neighbors(AskedWallets, {1, 50})
    \/ api_shortest_path(AskedWallets)
SpecGraph == InitStore /\ [][NextGraph]_vars

----------------------------------------------------------------------------
(* Requests served by threads *)

\* The server of app.run serves each request in a thread of its own, and
\* no handler takes a lock. One insert is followed through its steps, pc
\* being its position; the neighbors route is served at any of them.

\* api_db_insert up to the return of db.insert_record(data)
api_db_insert_store(bodies, max) ==
    \E data \in bodies :
        /\ pc = Idle /\ Len(data_store) < max
        /\ lastOp' = CallWith("api_db_insert", data)
        /\ IF ~app_STATE.db_loaded
              \/ Required \ DOMAIN data # {}
              \/ parse_timestamp_str_only(data["timestamp_str"]) = None
           THEN /\ ret' = <<400, 0>>
                /\ UNCHANGED <<dbVars, appVars>>
           ELSE \E r \in {insert_record(DB, data)} :
                   /\ SetDB(r.db)
                   /\ IF Len(r.ret) # 1
                      THEN /\ ret' = <<500, 0>>
                           /\ UNCHANGED appVars
                      ELSE /\ pc' = <<"clear", 0>>
                           /\ UNCHANGED <<ret, app_g, app_STATE>>
        /\ UNCHANGED tree

\* build_graph_from_db: the three clear() calls
build_graph_clear ==
    /\ pc = <<"clear", 0>>
    /\ lastOp' = Call("build_graph_clear", 0, 0)
    /\ app_g' = CryptoGraph
    /\ pc' = <<"loop", 1>>
    /\ UNCHANGED <<ret, tree, dbVars, app_STATE>>

\* build_graph_from_db: the turn of the for loop for the slot pc[2]
build_graph_turn ==
    /\ pc[1] = "loop" /\ pc[2] <= Len(data_store)
    /\ lastOp' = Call("build_graph_turn", pc[2], 0)
    /\ app_g' = build_graph_step(app_g, data_store[pc[2]])
    /\ pc' = <<"loop", pc[2] + 1>>
    /\ UNCHANGED <<ret, tree, dbVars, app_STATE>>

\* api_db_insert after the loop of build_graph_from_db has ended; new_id is
\* the id insert_record returned, the last slot
api_db_insert_return ==
    /\ pc[1] = "loop" /\ pc[2] > Len(data_store)
    /\ lastOp' = Call("api_db_insert_return", 0, 0)
    /\ app_STATE' = [app_STATE EXCEPT !.graph_built = TRUE]
    /\ ret' = <<200, Len(data_store) - 1>>
    /\ pc' = Idle
    /\ UNCHANGED <<tree, dbVars, app_g>>

NextThreads ==
    \/ warm_start
    \/ api_db_insert_store({Body(1, Some(wf), Some(wt)) :
                               wf \in 1..ThreadWallet,
                               wt \in 1..ThreadWallet},
                           ThreadRecords)
    \/ build_graph_clear
    \/ build_graph_turn
    \/ api_db_insert_return
    \/ api_neighbors(1..ThreadWallet, {50})
SpecThreads == InitStore /\ [][NextThreads]_vars

----------------------------------------------------------------------------
(* The analytics over a store *)

\* the records inserted: a token and a price, status 1, wallets 1; one
\* record has no price
StatInserts ==
    {[timestamp |-> Some(PyInt(1)), token |-> Some(tok), status |-> Some(1),
      wallet_from |-> Some(1), wallet_to |-> Some(1), volume |-> Some(1),
      price |-> Some(price)] :
        tok \in 1..StatToken, price \in 1..StatPrice}
        \cup {[timestamp |-> Some(PyInt(1)), token |-> Some(1),
               status |-> Some(1), wallet_from |-> Some(1),
               wallet_to |-> Some(1), volume |-> Some(1), price |-> None]}

\* the filters passed: any token or none, a status or none; status 2 is the
\* status of no record
StatFilters ==
    [symbol : SomeOf(1..StatToken) \cup {None},
     status : {None, Some(2)},
     sender_wallet : {None},
     receiver_wallet : {None}]

\* the integers the generator can hand out: draws[n] is in 1..n; a draw
\* that is not asked for (n <= sample_size) or that changes nothing
\* (sample_size = 0) is 1
StatDraws(sample_size) ==
    {d \in [1..StatRecords -> 1..StatRecords] :
        \A n \in 1..StatRecords :
            /\ d[n] <= n
            /\ n <= sample_size \/ sample_size = 0 => d[n] = 1}

StatInsertRecord ==
    \E record \in StatInserts :
        /\ Len(data_store) < StatRecords
        /\ \E r \in {insert_record(DB, record)} :
              /\ SetDB(r.db)
              /\ lastOp' = CallWith("insert_record", record)
              /\ ret' = r.ret
        /\ UNCHANGED <<tree, appVars>>

StatDeleteRecord ==
    \E record_id \in 0..(StatRecords - 1) :
        /\ \E r \in {delete_record(DB, record_id)} :
              /\ SetDB(r.db)
              /\ lastOp' = Call("delete_record", record_id, 0)
              /\ ret' = r.ret
        /\ UNCHANGED <<tree, appVars>>

\* amount_usd_analytics(symbol, status, sender_wallet, receiver_wallet,
\* sample_size)
AmountUsdAnalytics ==
    \E f \in StatFilters, sample_size \in 0..StatSample :
        \E draws \in StatDraws(sample_size) :
            /\ lastOp' = [op |-> "amount_usd_analytics", x |-> sample_size,
                          y |-> 0,
                          rec |-> Some([filters |-> f, draws |-> draws])]
            /\ ret' = amount_usd_analytics(DB, f.symbol, f.status,
                                           f.sender_wallet, f.receiver_wallet,
                                           sample_size, draws)
            /\ UNCHANGED <<tree, dbVars, appVars>>

NextStats == StatInsertRecord \/ StatDeleteRecord \/ AmountUsdAnalytics
SpecStats == InitStore /\ [][NextStats]_vars

----------------------------------------------------------------------------
(* The queries of the store *)

\* the records inserted: a timestamp and a token, sender 1 and receiver 2
ReadInserts ==
    {[timestamp |-> Some(PyInt(ts)), token |-> Some(tok), status |-> Some(1),
      wallet_from |-> Some(1), wallet_to |-> Some(2), volume |-> Some(1),
      price |-> Some(tok)] :
        ts \in 1..ReadKey, tok \in 1..ReadKey}

\* the timestamps, tokens and wallets asked for: those of the records, and
\* 0 and one more
ReadKeys == 0..(ReadKey + 1)

\* db.insert_record(record) for a record of records, while the store holds
\* fewer than max slots
InsertRecordOf(records, max) ==
    \E record \in records :
        /\ Len(data_store) < max
        /\ \E r \in {insert_record(DB, record)} :
              /\ SetDB(r.db)
              /\ lastOp' = CallWith("insert_record", record)
              /\ ret' = r.ret
        /\ UNCHANGED <<tree, appVars>>

\* db.delete_record(record_id) for an id of ids
DeleteRecordOf(ids) ==
    \E record_id \in ids :
        /\ \E r \in {delete_record(DB, record_id)} :
              /\ SetDB(r.db)
              /\ lastOp' = Call("delete_record", record_id, 0)
              /\ ret' = r.ret
        /\ UNCHANGED <<tree, appVars>>

\* a wrong lookup, which takes the record found out of the store
GetRecordByTimestamp_taking ==
    \E timestamp \in ReadKeys :
        /\ lastOp' = Call("get_record_by_timestamp", timestamp, 0)
        /\ ret' = get_record_by_timestamp(DB, timestamp)
        /\ IF get_record_by_timestamp(DB, timestamp) = None
           THEN UNCHANGED dbVars
           ELSE SetDB(delete_record(
                          DB, get_record_by_timestamp(DB, timestamp)[1]).db)
        /\ UNCHANGED <<tree, appVars>>

\* db.get_record_by_timestamp(timestamp)
GetRecordByTimestamp ==
    \E timestamp \in ReadKeys :
        /\ lastOp' = Call("get_record_by_timestamp", timestamp, 0)
        /\ ret' = get_record_by_timestamp(DB, timestamp)
        /\ UNCHANGED <<tree, dbVars, appVars>>

\* db.get_records_by_timestamp(timestamp)
GetRecordsByTimestamp ==
    \E timestamp \in ReadKeys :
        /\ lastOp' = Call("get_records_by_timestamp", timestamp, 0)
        /\ ret' = get_records_by_timestamp(DB, timestamp)
        /\ UNCHANGED <<tree, dbVars, appVars>>

\* db.get_records_by_token(token)
GetRecordsByToken ==
    \E token \in ReadKeys :
        /\ lastOp' = Call("get_records_by_token", token, 0)
        /\ ret' = get_records_by_token(DB, token)
        /\ UNCHANGED <<tree, dbVars, appVars>>

\* db.get_records_by_wallet_sender(wallet_id)
GetRecordsByWalletSender ==
    \E wallet_id \in ReadKeys :
        /\ lastOp' = Call("get_records_by_wallet_sender", wallet_id, 0)
        /\ ret' = get_records_by_wallet_sender(DB, wallet_id)
        /\ UNCHANGED <<tree, dbVars, appVars>>

\* list(db.range_query_by_timestamp(start_ts, end_ts))
RangeQueryByTimestamp ==
    \E start_ts \in ReadKeys, end_ts \in ReadKeys :
        /\ lastOp' = Call("range_query_by_timestamp", start_ts, end_ts)
        /\ ret' = range_query_by_timestamp(DB, start_ts, end_ts)
        /\ UNCHANGED <<tree, dbVars, appVars>>

\* g.build_graph_from_db(db)
BuildGraphFromDb ==
    /\ lastOp' = Call("build_graph_from_db", 0, 0)
    /\ ret' = None
    /\ app_g' = build_graph_from_db(DB)
    /\ UNCHANGED <<tree, dbVars, app_STATE, pc>>

NextReads ==
    \/ InsertRecordOf(ReadInserts, ReadRecords)
    \/ DeleteRecordOf(0..(ReadRecords - 1))
    \/ GetRecordByTimestamp
    \/ GetRecordsByTimestamp
    \/ GetRecordsByToken
    \/ GetRecordsByWalletSender
    \/ RangeQueryByTimestamp
    \/ BuildGraphFromDb
    \/ AmountUsdAnalytics
SpecReads == InitStore /\ [][NextReads]_vars

----------------------------------------------------------------------------
(* A record changed through a reference the caller holds *)

\* db.update_record(record_id, updates) for an id of ids
UpdateRecordOf(ids, updates_passed) ==
    \E record_id \in ids, updates \in updates_passed :
        /\ \E r \in {update_record(DB, record_id, updates)} :
              /\ SetDB(r.db)
              /\ lastOp' = [Call("update_record", record_id, 0)
                               EXCEPT !.rec = Some(updates)]
              /\ ret' = r.ret
        /\ UNCHANGED <<tree, appVars>>

\* insert_record appends the caller's dict itself: a caller that has just
\* inserted a dict and still holds it changes its token, "r['token'] = tok".
\* No index is told.
WriteThrough(tokens) ==
    \E tok \in tokens :
        /\ lastOp.op = "insert_record" /\ Len(ret) = 1
        /\ data_store' =
              [data_store EXCEPT ![ret[1] + 1] =
                  Some(dict_set(@[1], "token", Some(tok)))]
        /\ lastOp' = Call("write_through", ret[1], tok)
        /\ ret' = None
        /\ UNCHANGED <<timestamp_index, token_index, wallet_from_index,
                       next_record_id, active_records, tree, appVars>>

\* the updates passed: a new token
TokenUpdates == {dict_set(<<>>, "token", Some(tok)) : tok \in 1..ReadKey}

\* the store used by a caller that writes to the records it holds; the
\* records and ids are those of SpecReads
NextHeld ==
    \/ InsertRecordOf(ReadInserts, ReadRecords)
    \/ DeleteRecordOf(0..(ReadRecords - 1))
    \/ UpdateRecordOf(0..(ReadRecords - 1), TokenUpdates)
    \/ WriteThrough(1..ReadKey)
SpecHeld == InitStore /\ [][NextHeld]_vars

----------------------------------------------------------------------------
(* A graph rebuilt when its owner asks *)

\* a wrong clearing, which keeps what the graph held
graph_clear_nothing(g) == g

\* self.graph.clear(); self.wallet_token_counts.clear();
\* self.wallet_token_volume.clear()
graph_clear(g) ==
    [graph |-> <<>>, wallet_token_counts |-> <<>>,
     wallet_token_volume |-> <<>>]

\* g.build_graph_from_db(db), g holding what it held before
build_graph_from_db_on(g, db) ==
    build_graph_loop(db.data_store, 1, graph_clear(g))

\* the updates passed: the record is re-addressed to another receiver
ReceiverUpdates ==
    {dict_set(<<>>, "wallet_to", Some(wt)) : wt \in 1..GraphWallet}

\* g.build_graph_from_db(db); recorded with the number of senders the graph
\* had before
Rebuild ==
    /\ lastOp' = Call("build_graph_from_db", Len(app_g.graph), 0)
    /\ ret' = None
    /\ app_g' = build_graph_from_db_on(app_g, DB)
    /\ UNCHANGED <<tree, dbVars, app_STATE, pc>>

\* a store and a graph that is rebuilt only when asked, so that the graph
\* can lag behind the store
NextRebuild ==
    \/ InsertRecordOf(GraphBodies, RebuildRecords)
    \/ DeleteRecordOf(0..(RebuildRecords - 1))
    \/ UpdateRecordOf(0..(RebuildRecords - 1), ReceiverUpdates)
    \/ Rebuild
SpecRebuild == InitStore /\ [][NextRebuild]_vars

----------------------------------------------------------------------------
(* CryptoGraph: bfs, dfs, top_tokens_for_wallet (core/graph.py)            *)

\* the keys of a dict, in its order
od_keys(d) == [i \in DOMAIN d |-> d[i].k]

\* the while loop of bfs: visited is a set, queue and order are lists
RECURSIVE bfs_loop(_, _, _, _)
bfs_loop(g, queue, visited, order) ==
    IF queue = <<>> THEN order
    ELSE LET u == Head(queue)
             fresh(v) == v \notin visited
             found == SelectSeq(od_keys(neighbors(g, u)), fresh)
         IN bfs_loop(g, Tail(queue) \o found,
                     visited \cup {found[i] : i \in DOMAIN found},
                     Append(order, u))

bfs(g, start) ==
    IF ~od_has(g.graph, start) THEN Some(<<start>>)
    ELSE Some(bfs_loop(g, <<start>>, {start}, <<>>))

RECURSIVE _dfs_for(_, _, _, _, _)

\* _dfs(u), nested depth deep: st is [visited, order, raised], raised when
\* the interpreter has refused a call (RecursionError)
RECURSIVE _dfs(_, _, _, _)
_dfs(g, u, st, depth) ==
    IF depth > WalkDepth THEN [st EXCEPT !.raised = TRUE]
    ELSE _dfs_for(g, od_keys(neighbors(g, u)), 1,
                  [st EXCEPT !.visited = @ \cup {u},
                             !.order = Append(@, u)], depth)

\* "for v in self.graph.get(u, {}): if v not in visited: _dfs(v)", from
\* the i-th neighbour on
_dfs_for(g, nbrs, i, st, depth) ==
    IF st.raised \/ i > Len(nbrs) THEN st
    ELSE IF nbrs[i] \in st.visited THEN _dfs_for(g, nbrs, i + 1, st, depth)
    ELSE _dfs_for(g, nbrs, i + 1, _dfs(g, nbrs[i], st, depth + 1), depth)

dfs(g, start) ==
    LET st == _dfs(g, start,
                   [visited |-> {}, order |-> <<>>, raised |-> FALSE], 1)
    IN IF st.raised THEN Raise("RecursionError") ELSE Some(st.order)

\* sorted(items, key=lambda kv: kv[1], reverse=True): stable, the greater
\* value first
RECURSIVE sorted_by_value_reversed(_)
sorted_by_value_reversed(items) ==
    IF items = <<>> THEN <<>>
    ELSE LET greater(e) == e.v > Head(items).v
             others(e) == ~(e.v > Head(items).v)
         IN sorted_by_value_reversed(SelectSeq(Tail(items), greater))
            \o <<Head(items)>>
            \o sorted_by_value_reversed(SelectSeq(Tail(items), others))

top_tokens_for_wallet(g, wallet, top_k) ==
    LET stats == IF od_has(g.wallet_token_volume, wallet)
                 THEN od_get(g.wallet_token_volume, wallet)
                 ELSE <<>>
        ranked == sorted_by_value_reversed(stats)
    IN SubSeq(ranked, 1, Min(top_k, Len(ranked)))

\* the transfers recorded: every pair of the wallets, loops included, of
\* the tokens 1 and 2 by the parity of the pair
WalkRecordsOf ==
    {[timestamp |-> Some(PyInt(1)), token |-> Some(1 + ((wf + wt) % 2)),
      wallet_from |-> Some(wf), wallet_to |-> Some(wt),
      volume |-> Some(wt), price |-> Some(1)] :
        wf \in 1..WalkWallet, wt \in 1..WalkWallet}

\* the wallets asked about: every wallet and one that is in no record
WalkStarts == 1..(WalkWallet + 1)

\* db.insert_record(record); g.build_graph_from_db(db)
InsertAndRebuild(records, max) ==
    \E record \in records :
        /\ Len(data_store) < max
        /\ \E r \in {insert_record(DB, record)} :
              /\ SetDB(r.db)
              /\ lastOp' = CallWith("insert_record", record)
              /\ ret' = r.ret
              /\ app_g' = build_graph_from_db_on(app_g, r.db)
        /\ UNCHANGED <<tree, app_STATE, pc>>

\* a wrong call, which looks the node up with self.graph[node]: the
\* defaultdict makes an entry for a node it does not know
Neighbors_touching ==
    \E node \in WalkStarts :
        /\ lastOp' = Call("neighbors", node, 0)
        /\ ret' = Some(neighbors(app_g, node))
        /\ app_g' = [app_g EXCEPT !.graph = od_touch(@, node, <<>>)]
        /\ UNCHANGED <<tree, dbVars, app_STATE, pc>>

\* g.neighbors(node)
Neighbors ==
    \E node \in WalkStarts :
        /\ lastOp' = Call("neighbors", node, 0)
        /\ ret' = Some(neighbors(app_g, node))
        /\ UNCHANGED <<tree, dbVars, appVars>>

\* g.bfs(start)
Bfs ==
    \E start \in WalkStarts :
        /\ lastOp' = Call("bfs", start, 0)
        /\ ret' = bfs(app_g, start)
        /\ UNCHANGED <<tree, dbVars, appVars>>

\* g.dfs(start)
Dfs ==
    \E start \in WalkStarts :
        /\ lastOp' = Call("dfs", start, 0)
        /\ ret' = dfs(app_g, start)
        /\ UNCHANGED <<tree, dbVars, appVars>>

\* g.top_tokens_for_wallet(wallet), top_k = 3
TopTokensForWallet ==
    \E wallet \in WalkStarts :
        /\ lastOp' = Call("top_tokens_for_wallet", wallet, 3)
        /\ ret' = Some(top_tokens_for_wallet(app_g, wallet, 3))
        /\ UNCHANGED <<tree, dbVars, appVars>>

NextWalk ==
    \/ InsertAndRebuild(WalkRecordsOf, WalkRecords)
    \/ Neighbors
    \/ Bfs
    \/ Dfs
    \/ TopTokensForWallet
SpecWalk == InitStore /\ [][NextWalk]_vars

----------------------------------------------------------------------------
(* The analytics under every filter *)

\* the records inserted: every token, status, sender and receiver, with
\* price 1; one record without price and one that carries the mark
\* __deleted__
FilterInserts ==
    {[timestamp |-> Some(PyInt(1)), token |-> Some(tok), status |-> Some(st),
      wallet_from |-> Some(wf), wallet_to |-> Some(wt), volume |-> Some(1),
      price |-> Some(1)] :
        tok \in 1..FilterValue, st \in 1..FilterValue,
        wf \in 1..FilterValue, wt \in 1..FilterValue}
        \cup {[timestamp |-> Some(PyInt(1)), token |-> Some(1),
               status |-> Some(1), wallet_from |-> Some(1),
               wallet_to |-> Some(1), volume |-> Some(1), price |-> None],
              [timestamp |-> Some(PyInt(1)), token |-> Some(1),
               status |-> Some(1), wallet_from |-> Some(1),
               wallet_to |-> Some(1), volume |-> Some(1), price |-> Some(1),
               __deleted__ |-> Some(TRUE)]}

\* a filter: left out, the empty string, or a value
AFilter == {None, Some(EmptyStr)} \cup SomeOf(1..FilterAsked)
AllFilters ==
    [symbol : AFilter, status : AFilter, sender_wallet : AFilter,
     receiver_wallet : AFilter]

\* amount_usd_analytics(symbol, status, sender_wallet, receiver_wallet) with
\* a sample that has room for every value, so that nothing is drawn
FilteredAnalytics ==
    \E f \in AllFilters :
        /\ lastOp' = [op |-> "amount_usd_analytics", x |-> FilterRecords,
                      y |-> 0,
                      rec |-> Some([filters |-> f,
                                    draws |-> [n \in 1..FilterRecords |-> 1]])]
        /\ ret' = amount_usd_analytics(DB, f.symbol, f.status,
                                       f.sender_wallet, f.receiver_wallet,
                                       FilterRecords,
                                       [n \in 1..FilterRecords |-> 1])
        /\ UNCHANGED <<tree, dbVars, appVars>>

NextFilters ==
    \/ InsertRecordOf(FilterInserts, FilterRecords)
    \/ DeleteRecordOf(0..(FilterRecords - 1))
    \/ FilteredAnalytics
SpecFilters == InitStore /\ [][NextFilters]_vars

----------------------------------------------------------------------------
(* The analytics with the generator of the code.  random.Random(seed) is   *)
(* the Mersenne Twister of CPython: genrand_top4 lists the top four bits   *)
(* of the 32-bit words it hands out, which is all that randint(1, n) reads *)
(* for n < 16; after the words listed the list is read again from its      *)
(* start.                                                                  *)

\* rng = random.Random(1337)
Seed == 1337

\* the words after random.Random(1337) and, for a generator seeded
\* otherwise, those after random.Random(1339)
genrand_top4(seed) ==
    IF seed = Seed
    THEN <<9, 14, 8, 11, 5, 9, 9, 11, 2, 12, 13, 5, 6, 10, 12, 5,
           14, 15, 4, 6, 15, 11, 3, 12, 10, 13, 14, 5, 1, 6, 13, 10>>
    ELSE <<10, 3, 4, 0, 0, 11, 12, 10, 5, 3, 3, 14, 6, 3, 8, 15,
           11, 10, 6, 5, 14, 6, 7, 6, 11, 15, 2, 13, 1, 10, 3, 6>>

\* the generator: its seed and the number of words it has handed out
random_Random(seed) == [seed |-> seed, pos |-> 0]

\* n.bit_length()
RECURSIVE bit_length(_)
bit_length(n) == IF n = 0 THEN 0 ELSE 1 + bit_length(n \div 2)

\* rng.getrandbits(k), k <= 4: the top k bits of the next word
getrandbits(rng, k) ==
    [rng |-> [rng EXCEPT !.pos = @ + 1],
     r |-> genrand_top4(rng.seed)[
               1 + (rng.pos % Len(genrand_top4(rng.seed)))]
           \div (2 ^ (4 - k))]

\* rng._randbelow(n): k = n.bit_length(); r = getrandbits(k);
\* while r >= n: r = getrandbits(k)
RECURSIVE _randbelow(_, _, _)
_randbelow(rng, n, k) ==
    LET g == getrandbits(rng, k)
    IN IF g.r < n THEN g ELSE _randbelow(g.rng, n, k)

\* rng.randint(a, b): a + _randbelow(b - a + 1)
randint(rng, a, b) ==
    LET g == _randbelow(rng, b - a + 1, bit_length(b - a + 1))
    IN [rng |-> g.rng, j |-> a + g.r]

\* the integers that the loop of amount_usd_analytics draws from rng for the
\* values n..count: nothing is drawn while the sample has room (the entry
\* is 1 then), rng.randint(1, n) for the n-th value otherwise
RECURSIVE seeded_draws(_, _, _, _)
seeded_draws(rng, n, count, sample_size) ==
    IF n > count THEN <<>>
    ELSE IF n <= sample_size
    THEN <<1>> \o seeded_draws(rng, n + 1, count, sample_size)
    ELSE LET g == randint(rng, 1, n)
         IN <<g.j>> \o seeded_draws(g.rng, n + 1, count, sample_size)

\* the draws of a call with the filters f, its generator seeded with seed
draws_of_call(db, f, sample_size, seed) ==
    seeded_draws(random_Random(seed), 1,
                 Len(_iter_amounts(db, f.symbol, f.status, f.sender_wallet,
                                   f.receiver_wallet)),
                 sample_size)

\* the filters passed: a token or none
SeededFilters ==
    [symbol : {None, Some(1)}, status : {None}, sender_wallet : {None},
     receiver_wallet : {None}]

\* a wrong call, whose generator is seeded differently from call to call
SeededAnalytics_unseeded ==
    \E f \in SeededFilters, sample_size \in 0..SeededSample :
        \E seed \in {Seed, Seed + 2} :
            \E draws \in {draws_of_call(DB, f, sample_size, seed)} :
                /\ lastOp' = [op |-> "amount_usd_analytics",
                              x |-> sample_size, y |-> 0,
                              rec |-> Some([filters |-> f, draws |-> draws])]
                /\ ret' = amount_usd_analytics(DB, f.symbol, f.status,
                                               f.sender_wallet,
                                               f.receiver_wallet,
                                               sample_size, draws)
                /\ UNCHANGED <<tree, dbVars, appVars>>

\* amount_usd_analytics(symbol, sample_size=sample_size) with the generator
\* random.Random(1337), made anew in the call
SeededAnalytics ==
    \E f \in SeededFilters, sample_size \in 0..SeededSample :
        \E draws \in {draws_of_call(DB, f, sample_size, Seed)} :
            /\ lastOp' = [op |-> "amount_usd_analytics", x |-> sample_size,
                          y |-> 0,
                          rec |-> Some([filters |-> f, draws |-> draws])]
            /\ ret' = amount_usd_analytics(DB, f.symbol, f.status,
                                           f.sender_wallet, f.receiver_wallet,
                                           sample_size, draws)
            /\ UNCHANGED <<tree, dbVars, appVars>>

NextSeeded ==
    \/ InsertRecordOf(StatInserts, SeededRecords)
    \/ DeleteRecordOf(0..(SeededRecords - 1))
    \/ SeededAnalytics
SpecSeeded == InitStore /\ [][NextSeeded]_vars

----------------------------------------------------------------------------
(* Properties of the tree *)

Positions(t) == DOMAIN t.node

\* the true height of the subtree rooted at p
RECURSIVE Height(_, _)
Height(t, p) ==
    IF p = Nil THEN 0
    ELSE 1 + Max(Height(t, get_left(t, p)), Height(t, get_right(t, p)))

BalancedAt(t, p) ==
    Abs(Height(t, get_left(t, p)) - Height(t, get_right(t, p))) <= 1

StrictlyIncreasing(s) == \A i \in 1..(Len(s) - 1) : s[i] < s[i + 1]

\* C1: after any sequence of put and remove, every node's left and right
\* subtrees differ in (true) height by at most 1.
C1_Balanced == \A p \in Positions(tree) : BalancedAt(tree, p)

\* C2: after any sequence of put and remove, the in-order traversal yields
\* strictly increasing keys.
C2_InorderIncreasing == StrictlyIncreasing(iter_keys(tree))

\* C2 witness: a two-child removal has just happened and left a tree of at
\* least five keys (so the removal went through a successor copy, and the
\* tree has been rotated on the way there).
C2_Witness ==
    /\ lastOp.op = "remove" /\ lastOp.y = 2
    /\ Len(iter_keys(tree)) >= 5

----------------------------------------------------------------------------
(* The map as a key -> value mapping *)

\* the value the traversal shows under key k, or None
Lookup(t, k) ==
    IF \E i \in DOMAIN iter_keys(t) : iter_keys(t)[i] = k
    THEN Some(values(t)[CHOOSE i \in DOMAIN iter_keys(t) : iter_keys(t)[i] = k])
    ELSE None

SameElsewhere(t1, t2, k) ==
    \A j \in Probes \ {k} : get(t2, j) = get(t1, j)

C3_Step ==
    LET k == lastOp'.x
        v == lastOp'.y
    IN /\ lastOp'.op = "put" =>
            /\ ret' = Lookup(tree, k)
            /\ get(tree', k) = Some(v)
            /\ SameElsewhere(tree, tree', k)
       /\ lastOp'.op = "remove" =>
            /\ ret' = Lookup(tree, k)
            /\ get(tree', k) = None
            /\ SameElsewhere(tree, tree', k)
       /\ lastOp'.op = "get" =>
            /\ ret' = Lookup(tree, k)
            /\ \A j \in Probes : get(tree', j) = get(tree, j)

\* C3: the map refines a key -> value mapping: put(k, v) returns the
\* previous value of k (None if absent) and afterwards get(k) = v;
\* remove(k) returns the stored value and afterwards get(k) = None; get and
\* remove of a missing key return None; no operation on k changes get(j)
\* for j # k.
C3_RefinesMap == [][C3_Step]_vars

\* C3 witness: a put has replaced the value of a present key in a map of at
\* least three keys and returned the different, previous value.
C3_Witness ==
    /\ lastOp.op = "put" /\ ret # None /\ ret # Some(lastOp.y)
    /\ get(tree, lastOp.x) = Some(lastOp.y)
    /\ Len(iter_keys(tree)) >= 3

\* the values of the keys lo, lo+1, .. hi-1 that are present, in that order
RECURSIVE RangeValues(_, _, _)
RangeValues(t, lo, hi) ==
    IF lo >= hi THEN <<>>
    ELSE get(t, lo) \o RangeValues(t, lo + 1, hi)

\* C4: sub_map(lo, hi) yields exactly the values of the keys k with
\* lo <= k < hi, each once, in ascending key order (nothing when none
\* qualifies).
C4_SubMap ==
    lastOp.op = "sub_map" => ret = RangeValues(tree, lastOp.x, lastOp.y)

\* C4 witness: a range whose lower bound is a present key (included) and
\* whose upper bound is a present key (excluded), yielding two different
\* values and leaving out other keys.
C4_Witness ==
    /\ lastOp.op = "sub_map"
    /\ get(tree, lastOp.x) # None /\ get(tree, lastOp.y) # None
    /\ Len(ret) = 2 /\ ret[1] # ret[2]
    /\ Len(iter_keys(tree)) = 4

----------------------------------------------------------------------------
(* Properties of the store *)

SlotIds == 0..(Len(data_store) - 1)
ActiveIds == {id \in SlotIds : data_store[id + 1] # None}
TombstonedIds == {id \in SlotIds : data_store[id + 1] = None}

\* the record in the slot of an active id
RecordOf(id) == data_store[id + 1][1]

Count(s, x) == Cardinality({i \in DOMAIN s : s[i] = x})

RECURSIVE Flatten(_)
Flatten(ss) == IF ss = <<>> THEN <<>> ELSE Head(ss) \o Flatten(Tail(ss))

\* the ids of all buckets of an index, and the bucket under one key
AllIds(index) == Flatten(values(index))
BucketOf(index, key) ==
    IF get(index, key) = None THEN <<>> ELSE get(index, key)[1]

\* id is once in the bucket under key and in no other bucket of the index;
\* a record that has None for the field is in no bucket
IndexedOnce(index, key, id) ==
    IF key = None THEN Count(AllIds(index), id) = 0
    ELSE /\ Count(BucketOf(index, key[1]), id) = 1
         /\ Count(AllIds(index), id) = 1

\* C5: in every reachable state of the store, the id of each non-tombstoned
\* record is exactly once in the timestamp bucket of its timestamp, exactly
\* once in the token bucket of its token and exactly once in the
\* sender-wallet bucket of its sender wallet (and in no other bucket of that
\* index).
C5_IndexedOnce ==
    \A id \in ActiveIds :
        /\ IndexedOnce(timestamp_index,
                       Some(py_int(RecordOf(id)["timestamp"][1])), id)
        /\ IndexedOnce(token_index, dict_get(RecordOf(id), "token"), id)
        /\ IndexedOnce(wallet_from_index,
                       dict_get(RecordOf(id), "wallet_from"), id)

\* C5 witness: an update has moved record 0 into the token bucket that
\* record 1 was in already, while the two sit in different timestamp buckets
C5_Witness ==
    /\ lastOp.op = "update_record" /\ lastOp.x = 0 /\ ret = Some(TRUE)
    /\ ActiveIds = {0, 1}
    /\ \E tok \in Tokens : BucketOf(token_index, tok) = <<1, 0>>
    /\ Len(iter_keys(timestamp_index)) = 2

\* the call of the step has returned normally from insert_record
Inserted == lastOp'.op = "insert_record" /\ Len(ret') = 1
\* the call of the step is delete_record, with the given result
Deleted(result) == lastOp'.op = "delete_record" /\ ret' = Some(result)

C6_Step ==
    /\ Inserted => active_records' = active_records + 1
    /\ Deleted(TRUE) => active_records' = active_records - 1
    /\ ~(Inserted \/ Deleted(TRUE)) => active_records' = active_records

\* C6: active_records is the number of slots that are not None; an insert
\* raises it by exactly 1, a successful delete lowers it by exactly 1, an
\* update and every failed operation leave it as it is.
C6_ActiveCount ==
    /\ [](active_records = Cardinality(ActiveIds))
    /\ [][C6_Step]_vars

\* C6 witness: a delete has succeeded and left one active record beside a
\* tombstone
C6_Witness ==
    /\ lastOp.op = "delete_record" /\ ret = Some(TRUE)
    /\ active_records = 1 /\ Len(data_store) = 2

C7_Step ==
    /\ Inserted =>
          /\ ret' = Some(Len(data_store))
          /\ data_store' = Append(data_store, lastOp'.rec)
    /\ ~Inserted => Len(data_store') = Len(data_store)
    /\ \A id \in SlotIds :
          /\ data_store[id + 1] = None => data_store'[id + 1] = None
          /\ data_store'[id + 1] # data_store[id + 1] =>
                /\ lastOp'.op \in {"update_record", "delete_record"}
                /\ lastOp'.x = id

\* C7: ids are handed out in order and never reused: an insert that returns
\* appends the record and returns the length the array had (so the k-th
\* one returns k, whatever was deleted or updated in between), nothing else
\* changes the length of the array, next_record_id is that length, a
\* tombstone stays a tombstone, and the slot of an id changes only through
\* an update or a delete of that very id.
C7_MonotonicIds ==
    /\ [](next_record_id = Len(data_store))
    /\ [][C7_Step]_vars

\* C7 witness: an insert after a delete has been given the next id, 1, not
\* the id of the tombstone
C7_Witness ==
    /\ lastOp.op = "insert_record" /\ ret = Some(1)
    /\ data_store[1] = None /\ data_store[2] = lastOp.rec

C8_Step ==
    \A id \in Ids :
        lastOp'.op = "delete_record" /\ lastOp'.x = id =>
            IF id \in ActiveIds
            THEN /\ ret' = Some(TRUE)
                 /\ active_records' = active_records - 1
            ELSE /\ ret' = Some(FALSE)
                 /\ UNCHANGED dbVars

\* C8: delete_record of an active id returns success and lowers
\* active_records by exactly 1; delete_record of an id that is tombstoned
\* (deleted before) or out of range (negative, or >= the length of the
\* array) returns failure and leaves the array, the three indexes and the
\* counters unchanged.
C8_DeleteTwice == [][C8_Step]_vars

\* C8 witness: the delete of an id that is a tombstone has failed, beside an
\* active record
C8_Witness ==
    /\ lastOp.op = "delete_record" /\ ret = Some(FALSE)
    /\ lastOp.x \in TombstonedIds
    /\ ActiveIds # {}

----------------------------------------------------------------------------
(* Deleted records *)

TimestampProbes == 0..(MaxTs + 1)
TokenProbes == 0..(MaxToken + 1)
WalletProbes == 0..(MaxWallet + 1)

\* no lookup returns the record of id, and no bucket holds id
Invisible(id) ==
    /\ Count(AllIds(timestamp_index), id) = 0
    /\ Count(AllIds(token_index), id) = 0
    /\ Count(AllIds(wallet_from_index), id) = 0
    /\ \A ts \in TimestampProbes :
          /\ get_record_by_timestamp(DB, ts) # Some(id)
          /\ Count(get_records_by_timestamp(DB, ts), id) = 0
    /\ \A tok \in TokenProbes : Count(get_records_by_token(DB, tok), id) = 0
    /\ \A w \in WalletProbes :
          Count(get_records_by_wallet_sender(DB, w), id) = 0
    /\ \A lo \in TimestampProbes, hi \in TimestampProbes :
          Count(range_query_by_timestamp(DB, lo, hi), id) = 0

\* the edge u -> v of the graph built from the store, or the empty edge
EdgeOf(u, v) ==
    LET n == neighbors(build_graph_from_db(DB), u)
    IN IF od_has(n, v) THEN od_get(n, v)
       ELSE [count |-> 0, total_volume |-> 0]

\* the active records sent from u to v (each of volume 1)
Transfers(u, v) ==
    {id \in ActiveIds :
        /\ dict_get(RecordOf(id), "wallet_from") = Some(u)
        /\ dict_get(RecordOf(id), "wallet_to") = Some(v)}

\* wallet_token_counts[u][tok] of the graph built from the store, or 0
TokenCountOf(u, tok) ==
    LET c == build_graph_from_db(DB).wallet_token_counts
    IN IF od_has(c, u) /\ od_has(od_get(c, u), tok)
       THEN od_get(od_get(c, u), tok)
       ELSE 0

\* the token of a record as the graph keys it: "" when there is none
GraphToken(id) ==
    IF dict_get(RecordOf(id), "token") = None THEN EmptyStr
    ELSE dict_get(RecordOf(id), "token")[1]

\* the active records of token tok that u sent, and those that u received
Sent(u, tok) ==
    {id \in ActiveIds :
        /\ dict_get(RecordOf(id), "wallet_from") = Some(u)
        /\ GraphToken(id) = tok}
Received(u, tok) ==
    {id \in ActiveIds :
        /\ dict_get(RecordOf(id), "wallet_to") = Some(u)
        /\ GraphToken(id) = tok}

\* every edge and every per-wallet token count of a graph rebuilt now
\* counts the active records only
GraphOfActive ==
    /\ \A u \in Wallets, v \in Wallets :
          /\ EdgeOf(u, v).count = Cardinality(Transfers(u, v))
          /\ EdgeOf(u, v).total_volume = Cardinality(Transfers(u, v))
    /\ \A u \in Wallets, tok \in Tokens \cup {EmptyStr} :
          TokenCountOf(u, tok)
             = Cardinality(Sent(u, tok)) + Cardinality(Received(u, tok))

\* the amounts the analytics pass sees are those of the active records only
AnalyticsOfActive ==
    /\ Len(_iter_amounts(DB, None, None, None, None))
          = Cardinality(ActiveIds)
    /\ \A tok \in Tokens :
          Len(_iter_amounts(DB, Some(tok), None, None, None))
             = Cardinality({id \in ActiveIds :
                              dict_get(RecordOf(id), "token") = Some(tok)})

C9_Step ==
    \A id \in Ids :
        /\ Deleted(TRUE) /\ lastOp'.x = id => id \in TombstonedIds'
        /\ id \in TombstonedIds => id \in TombstonedIds'

\* C9: once delete_record(id) has succeeded the slot is a tombstone for
\* good, and in every later state no timestamp, token, sender-wallet or
\* range lookup returns the record, no bucket of the three indexes holds the
\* id, and neither an edge of a graph rebuilt then nor the analytics pass
\* counts the record.
C9_DeletedStaysGone ==
    /\ [](\A id \in TombstonedIds : Invisible(id))
    /\ [](GraphOfActive /\ AnalyticsOfActive)
    /\ [][C9_Step]_vars

\* C9 witness: record 0 was deleted, and a later update of record 1 has
\* succeeded
C9_Witness ==
    /\ lastOp.op = "update_record" /\ lastOp.x = 1 /\ ret = Some(TRUE)
    /\ TombstonedIds = {0} /\ ActiveIds = {1}

C10_Step ==
    \A id \in Ids :
        lastOp'.op = "update_record" /\ lastOp'.x = id
            /\ id \notin ActiveIds =>
                /\ ret' = Some(FALSE)
                /\ UNCHANGED dbVars

\* C10: update_record of an id that is out of range or tombstoned returns
\* failure (it does not raise) and leaves the array, the three indexes,
\* next_record_id and active_records unchanged.
C10_UpdateFails == [][C10_Step]_vars

\* C10 witness: the update of a tombstoned id has returned failure, beside
\* an active record
C10_Witness ==
    /\ lastOp.op = "update_record" /\ ret = Some(FALSE)
    /\ lastOp.x \in TombstonedIds
    /\ ActiveIds # {}

----------------------------------------------------------------------------
(* Buckets and their order *)

\* the integer timestamp of a stored record
TsOf(rec) == py_int(rec["timestamp"][1])

KeysIn(index) == {iter_keys(index)[i] : i \in DOMAIN iter_keys(index)}
Members(s) == {s[i] : i \in DOMAIN s}
NoRepeats(s) == Cardinality(Members(s)) = Len(s)

\* s without x, the others in the order they had
Without(s, x) ==
    LET Other(y) == y # x
    IN SelectSeq(s, Other)

\* from index to indexP the id has left the bucket of old and entered, at
\* the end, the bucket of new (each None or Some(key)), and no other bucket
\* has changed; with old = new nothing of the index has changed
Moved(index, indexP, old, new, id) ==
    IF old = new
    THEN /\ iter_keys(indexP) = iter_keys(index)
         /\ values(indexP) = values(index)
    ELSE \A k \in KeysIn(index) \cup KeysIn(indexP) :
            BucketOf(indexP, k) =
                IF old = Some(k) THEN Without(BucketOf(index, k), id)
                ELSE IF new = Some(k) THEN Append(BucketOf(index, k), id)
                ELSE BucketOf(index, k)

AtMostOneBucket(index) ==
    \A id \in SlotIds : Count(AllIds(index), id) <= 1

C11_Step ==
    \A id \in 0..(OrdRecords - 1) :
        lastOp'.op = "update_record" /\ lastOp'.x = id /\ ret' = Some(TRUE) =>
            /\ Moved(timestamp_index, timestamp_index',
                     Some(TsOf(RecordOf(id))),
                     Some(TsOf(data_store'[id + 1][1])), id)
            /\ Moved(token_index, token_index',
                     dict_get(RecordOf(id), "token"),
                     dict_get(data_store'[id + 1][1], "token"), id)
            /\ Moved(wallet_from_index, wallet_from_index',
                     dict_get(RecordOf(id), "wallet_from"),
                     dict_get(data_store'[id + 1][1], "wallet_from"), id)

\* C11: a successful update_record that changes the timestamp, the token or
\* the sender wallet of a record takes its id out of the bucket of the old
\* key, the ids that remain there keeping their order, and puts it at the
\* end of the bucket of the new key; every other bucket of that index, and
\* every bucket of an index whose field did not change, stays as it was; and
\* in every state each id is in at most one bucket of each index.
C11_UpdateMoves ==
    /\ [](/\ AtMostOneBucket(timestamp_index)
          /\ AtMostOneBucket(token_index)
          /\ AtMostOneBucket(wallet_from_index))
    /\ [][C11_Step]_vars

\* C11 witness: the update of record 1 has left the timestamp bucket that held
\* 0, 1, 2 as 0, 2 and made a bucket of its own, the three ids being still
\* together in the sender-wallet bucket
C11_Witness ==
    /\ lastOp.op = "update_record" /\ lastOp.x = 1 /\ ret = Some(TRUE)
    /\ \E ts \in 1..OrdTs : BucketOf(timestamp_index, ts) = <<0, 2>>
    /\ \E ts \in 1..OrdTs : BucketOf(timestamp_index, ts) = <<1>>
    /\ \E w \in 1..OrdWallet : BucketOf(wallet_from_index, w) = <<0, 1, 2>>

----------------------------------------------------------------------------
(* Insert, then look the timestamp up *)

C12_OriginalStep ==
    Inserted =>
        LET got == get_record_by_timestamp(DB', TsOf(lastOp'.rec[1]))
        IN /\ got # None
           /\ data_store'[got[1] + 1] = lastOp'.rec

\* C12 as claimed: insert_record(r) immediately followed by
\* get_record_by_timestamp(r.timestamp) returns a record equal to the
\* inserted one.
C12_InsertThenGet == [][C12_OriginalStep]_vars

C12_Step ==
    Inserted =>
        LET ts == TsOf(lastOp'.rec[1])
            before == get_record_by_timestamp(DB, ts)
            all == get_records_by_timestamp(DB', ts)
        IN /\ get_record_by_timestamp(DB', ts)
                 = (IF before = None THEN ret' ELSE before)
           /\ all # <<>> /\ all[Len(all)] = ret'[1]
           /\ data_store'[ret'[1] + 1] = lastOp'.rec

\* C12 as amended: insert_record(r) immediately followed by
\* get_record_by_timestamp(t), t the integer of r's timestamp, returns the
\* record that lookup returned before the insert when there was one (the
\* first record still active in the bucket of t), and the inserted record
\* when there was none; the inserted record is stored as passed and is the
\* last record of get_records_by_timestamp(t).
C12_InsertThenGetFirst == [][C12_Step]_vars

\* C12 witness: record 1 has been inserted under the timestamp of the active
\* record 0, which differs from it
C12_Witness ==
    /\ lastOp.op = "insert_record" /\ ret = Some(1)
    /\ ActiveIds = {0, 1}
    /\ TsOf(RecordOf(0)) = TsOf(RecordOf(1))
    /\ RecordOf(0) # RecordOf(1)
    /\ get_record_by_timestamp(DB, TsOf(RecordOf(1))) = Some(0)

----------------------------------------------------------------------------
(* Lookups by key and by range *)

IsActive(id) == id \in ActiveIds
ActiveOf(bucket) == SelectSeq(bucket, IsActive)
HeadOrNone(s) == IF s = <<>> THEN None ELSE Some(Head(s))

\* what was in before and still is in after comes first in after, in the
\* order it had; what is new in after comes behind
StableOrder(before, after) ==
    LET Stays(x) == x \in Members(after)
        kept == SelectSeq(before, Stays)
    IN /\ Len(kept) <= Len(after)
       /\ SubSeq(after, 1, Len(kept)) = kept

\* the active ids whose record has the value key for the field
ActiveWith(field, key) ==
    {id \in ActiveIds : dict_get(RecordOf(id), field) = Some(key)}
ActiveAt(ts) == {id \in ActiveIds : TsOf(RecordOf(id)) = ts}

\* all is the bucket without tombstones and holds each of ids once
AllOf(all, bucket, ids) ==
    /\ all = ActiveOf(bucket)
    /\ Members(all) = ids
    /\ NoRepeats(all)

C13_State ==
    /\ \A ts \in 0..(OrdTs + 1) :
          /\ AllOf(get_records_by_timestamp(DB, ts),
                   BucketOf(timestamp_index, ts), ActiveAt(ts))
          /\ get_record_by_timestamp(DB, ts)
                = HeadOrNone(get_records_by_timestamp(DB, ts))
    /\ \A tok \in 0..(OrdToken + 1) :
          AllOf(get_records_by_token(DB, tok), BucketOf(token_index, tok),
                ActiveWith("token", tok))
    /\ \A w \in 0..(OrdWallet + 1) :
          AllOf(get_records_by_wallet_sender(DB, w),
                BucketOf(wallet_from_index, w), ActiveWith("wallet_from", w))

C13_Step ==
    /\ \A ts \in 1..OrdTs :
          StableOrder(get_records_by_timestamp(DB, ts),
                      get_records_by_timestamp(DB', ts))
    /\ \A tok \in 1..OrdToken :
          StableOrder(get_records_by_token(DB, tok),
                      get_records_by_token(DB', tok))
    /\ \A w \in 1..OrdWallet :
          StableOrder(get_records_by_wallet_sender(DB, w),
                      get_records_by_wallet_sender(DB', w))

\* C13: for each index and key the get-all lookup returns the records of the
\* key's bucket that are not tombstoned, in bucket order: every active
\* record that has the key, each once (records with the same key are all
\* kept), those that came to the key earlier before those that came later;
\* get_record_by_timestamp returns the first of them, or None when there is
\* none.
C13_Lookups == []C13_State /\ [][C13_Step]_vars

\* C13 witness: record 0 has been deleted from a timestamp at which records
\* 1 and 2 stand too: the lookups return 1, 2 and the first, 1
C13_Witness ==
    /\ lastOp.op = "delete_record" /\ lastOp.x = 0 /\ ret = Some(TRUE)
    /\ \E ts \in 1..OrdTs :
          /\ get_records_by_timestamp(DB, ts) = <<1, 2>>
          /\ get_record_by_timestamp(DB, ts) = Some(1)
    /\ RecordOf(1) # RecordOf(2)

C14_State ==
    \A lo \in 0..(OrdTs + 1), hi \in 0..(OrdTs + 1) :
        LET out == range_query_by_timestamp(DB, lo, hi)
        IN /\ Members(out) =
                 {id \in ActiveIds : /\ lo <= TsOf(RecordOf(id))
                                     /\ TsOf(RecordOf(id)) < hi}
           /\ NoRepeats(out)
           /\ \A i \in 1..(Len(out) - 1) :
                 TsOf(RecordOf(out[i])) <= TsOf(RecordOf(out[i + 1]))
           /\ \A ts \in lo..(hi - 1) :
                 LET At(id) == TsOf(RecordOf(id)) = ts
                 IN SelectSeq(out, At)
                       = range_query_by_timestamp(DB, ts, ts + 1)

C14_Step ==
    \A ts \in 1..OrdTs :
        StableOrder(range_query_by_timestamp(DB, ts, ts + 1),
                    range_query_by_timestamp(DB', ts, ts + 1))

\* C14: after any sequence of inserts, updates and deletes,
\* range_query_by_timestamp(start, end) yields exactly the active records
\* with start <= timestamp < end, each once, in ascending order of
\* timestamp; records of one timestamp come in the order in which they came
\* to that timestamp (by insert, or by an update that changed the
\* timestamp), whatever the range.
C14_Range == []C14_State /\ [][C14_Step]_vars

\* C14 witness: an update has moved record 0 to the timestamp of record 2;
\* the range over all timestamps yields 1, then 2, then 0
C14_Witness ==
    /\ lastOp.op = "update_record" /\ lastOp.x = 0 /\ ret = Some(TRUE)
    /\ range_query_by_timestamp(DB, 1, OrdTs + 1) = <<1, 2, 0>>
    /\ TsOf(RecordOf(1)) < TsOf(RecordOf(2))
    /\ TsOf(RecordOf(2)) = TsOf(RecordOf(0))

----------------------------------------------------------------------------
(* A record without a timestamp *)

C15_Step ==
    lastOp'.op = "insert_record"
        /\ "timestamp" \notin DOMAIN lastOp'.rec[1] =>
            /\ ret' = Raise("ValueError")
            /\ UNCHANGED dbVars

\* C15: insert_record of a record that has no timestamp field raises
\* ValueError and leaves the store as it was: next_record_id, the record
\* array, the three indexes and active_records are unchanged.
C15_MissingTimestamp == [][C15_Step]_vars

\* C15 witness: the insert of a record without timestamp has raised, into a
\* store that holds an active record
C15_Witness ==
    /\ lastOp.op = "insert_record"
    /\ "timestamp" \notin DOMAIN lastOp.rec[1]
    /\ ret = Raise("ValueError")
    /\ ActiveIds # {}

----------------------------------------------------------------------------
(* The graph after a mutation *)

\* the graph the service holds is the one a rebuild from the store as it is
\* now gives
GraphOfStore == app_g = build_graph_from_db(DB)

C16_Step ==
    lastOp'.op \in {"api_db_insert", "api_db_update", "api_db_delete"} =>
        /\ ret'[1] = 200 =>
              /\ lastOp'.op # "api_db_update" => DB' # DB
              /\ app_g' = build_graph_from_db(DB')
              /\ app_STATE'.graph_built
        /\ ret'[1] # 200 => UNCHANGED <<dbVars, appVars>>

----------------------------------------------------------------------------
(* The edges of the graph *)

AppWallets == 1..AppWallet

\* the amount of a record is its price (ingest_data fills price from the
\* column price or amount_usd, and volume from volume or fee_usd)
AmountOf(id) == dict_get(RecordOf(id), "price")[1]

RECURSIVE SumOfAmounts(_)
SumOfAmounts(ids) ==
    IF ids = {} THEN 0
    ELSE LET id == CHOOSE x \in ids : TRUE
         IN AmountOf(id) + SumOfAmounts(ids \ {id})

\* C17: in the graph built from the store the edge u -> v exists iff an
\* active record has sender u and receiver v, its count is the number of
\* those records and its total is the sum of their amounts.
C17_EdgesSumAmounts ==
    \A u \in AppWallets, v \in AppWallets :
        /\ od_has(neighbors(build_graph_from_db(DB), u), v)
              <=> Transfers(u, v) # {}
        /\ EdgeOf(u, v).count = Cardinality(Transfers(u, v))
        /\ EdgeOf(u, v).total_volume = SumOfAmounts(Transfers(u, v))

----------------------------------------------------------------------------
(* Neighbours *)

GraphWallets == 1..(GraphWallet + 1)

\* the wallets that an active record sends to from u, and those an active
\* record sends from to u
ReceiversOf(u) == {v \in GraphWallets : Transfers(u, v) # {}}
SendersTo(u) == {v \in GraphWallets : Transfers(v, u) # {}}

KeysOf(nbrs) == {nbrs[i].k : i \in DOMAIN nbrs}

C18_State ==
    \A w \in AskedWallets :
        LET nbrs == neighbors(app_g, w)
        IN /\ KeysOf(nbrs) = ReceiversOf(w)
           /\ Len(nbrs) = Cardinality(ReceiversOf(w))
           /\ \A i \in DOMAIN nbrs :
                 nbrs[i].v.count = Cardinality(Transfers(w, nbrs[i].k))

C18_Step ==
    lastOp'.op = "api_neighbors" =>
        /\ UNCHANGED <<dbVars, appVars>>
        /\ app_STATE.db_loaded /\ app_STATE.graph_built =>
              /\ ret'[1] = 200
              /\ KeysOf(ret'[2]) \subseteq ReceiversOf(lastOp'.x)
              /\ lastOp'.y = 50 => KeysOf(ret'[2]) = ReceiversOf(lastOp'.x)
              /\ ReceiversOf(lastOp'.x) = {} => ret'[2] = <<>>

\* C18: neighbors(w) lists exactly the wallets that an active record sends
\* to from w, each once and with the count of those records, so a wallet
\* that only sent to w is not listed; for a wallet that sent nothing, a
\* wallet of no record and the empty string it is the empty mapping; the
\* neighbors route answers 200 with it and changes nothing.
C18_Neighbors == []C18_State /\ [][C18_Step]_vars

\* C18 witness: the route has answered with the empty mapping for a wallet
\* that only received, while its sender has a neighbour
C18_Witness ==
    /\ lastOp.op = "api_neighbors" /\ ret = <<200, <<>>>>
    /\ SendersTo(lastOp.x) # {} /\ ReceiversOf(lastOp.x) = {}
    /\ \E u \in SendersTo(lastOp.x) : neighbors(app_g, u) # <<>>

----------------------------------------------------------------------------
(* Shortest paths *)

\* the least number of transfers of active records that lead from a wallet
\* of reached to dst, plus n; -1 when none does
RECURSIVE HopsFrom(_, _, _)
HopsFrom(reached, dst, n) ==
    IF dst \in reached THEN n
    ELSE LET next == reached \cup {v \in GraphWallets :
                                     \E u \in reached : Transfers(u, v) # {}}
         IN IF next = reached THEN -1 ELSE HopsFrom(next, dst, n + 1)

Hops(src, dst) == HopsFrom({src}, dst, 0)
Reaches(src, dst) == Hops(src, dst) # -1

IsPath(p, src, dst) ==
    /\ Len(p) >= 1 /\ p[1] = src /\ p[Len(p)] = dst
    /\ \A i \in 1..(Len(p) - 1) : Transfers(p[i], p[i + 1]) # {}

\* the ordered pairs of wallets with an edge
EdgePairs == {<<u, v>> \in GraphWallets \X GraphWallets : Transfers(u, v) # {}}

C20_State ==
    /\ \A src \in GraphWallets, dst \in GraphWallets :
          LET path == shortest_path(app_g, src, dst)
          IN IF ReceiversOf(src) = {} \/ ~Reaches(src, dst)
             THEN path = None
             ELSE /\ path # None
                  /\ IsPath(path[1], src, dst)
                  /\ Len(path[1]) - 1 = Hops(src, dst)
    /\ EdgePairs = {<<1, 2>>, <<2, 3>>} =>
          /\ shortest_path(app_g, 1, 3) = Some(<<1, 2, 3>>)
          /\ shortest_path(app_g, 3, 1) = None

C20_Step ==
    lastOp'.op = "api_shortest_path" =>
        /\ UNCHANGED <<dbVars, appVars>>
        /\ (/\ app_STATE.db_loaded /\ app_STATE.graph_built
            /\ lastOp'.x # EmptyStr /\ lastOp'.y # EmptyStr) =>
              LET path == shortest_path(app_g, lastOp'.x, lastOp'.y)
              IN IF path = None THEN ret' = <<404, <<>>>>
                 ELSE ret' = <<200, path[1]>>

\* C20: shortest_path(src, dst) is not found when no active record sends
\* from src or when no chain of transfers leads from src to dst; otherwise
\* it is a sequence of wallets from src to dst in which each wallet sent to
\* the next, with the least possible number of transfers. With the edges
\* 1 -> 2 and 2 -> 3 only, shortest_path(1, 3) is <<1, 2, 3>> and
\* shortest_path(3, 1) is not found. The route answers 404 when it is not
\* found and the path otherwise.
C20_ShortestPath == []C20_State /\ [][C20_Step]_vars

\* C20 witness: with the edges 1 -> 2 and 2 -> 3 only, the route has
\* answered the path from 1 to 3
C20_Witness ==
    /\ lastOp.op = "api_shortest_path" /\ lastOp.x = 1 /\ lastOp.y = 3
    /\ ret = <<200, <<1, 2, 3>>>>
    /\ EdgePairs = {<<1, 2>>, <<2, 3>>}
    /\ shortest_path(app_g, 3, 1) = None

----------------------------------------------------------------------------
(* Readers beside a writer *)

\* the store as it was before the insert that is in progress
StoreBefore ==
    IF pc = Idle THEN DB
    ELSE [DB EXCEPT !.data_store = SubSeq(@, 1, Len(@) - 1)]

C19_Step ==
    lastOp'.op = "api_neighbors" /\ ret'[1] = 200 =>
        ret'[2] \in {neighbors(build_graph_from_db(StoreBefore), lastOp'.x),
                     neighbors(build_graph_from_db(DB), lastOp'.x)}

\* C19: whatever the position of an insert that another thread is serving,
\* the neighbors route answers with the neighbours in the graph of the
\* store as it was before that insert or as it is after it, never with
\* those of a graph that is cleared or filled in part.
C19_AtomicRebuild == [][C19_Step]_vars

----------------------------------------------------------------------------
(* Analytics: what is counted *)

\* the record of id passes the filter x on field when there is no filter or
\* the field has the value asked for
Passes(id, field, x) ==
    x = None \/ x = Some(EmptyStr) \/ dict_get(RecordOf(id), field) = x

\* the active records with a price and no mark __deleted__ that pass the
\* four filters f
Matched(f) ==
    {id \in ActiveIds :
        /\ dict_get(RecordOf(id), "__deleted__") \in {None, Some(FALSE)}
        /\ Passes(id, "token", f.symbol)
        /\ Passes(id, "status", f.status)
        /\ Passes(id, "wallet_from", f.sender_wallet)
        /\ Passes(id, "wallet_to", f.receiver_wallet)
        /\ dict_get(RecordOf(id), "price") # None}

\* the step is a call of amount_usd_analytics
Analysed == lastOp'.op = "amount_usd_analytics"
FiltersOf(call) == call.rec[1].filters

C21_Step ==
    Analysed /\ Matched(FiltersOf(lastOp')) = {} =>
        /\ DOMAIN ret' = {"count", "filters", "message"}
        /\ ret'.count = 0
        /\ ret'.message = "No matching records."
        /\ UNCHANGED <<dbVars, appVars>>

\* C21: a call of amount_usd_analytics whose filters no active record with
\* a price passes returns a dict of count 0, the filters and a message,
\* with no field sum, min, max, mean, std_pop or approx_percentiles, and
\* changes nothing; it returns for every store and every filter.
C21_ZeroCount == [][C21_Step]_vars

\* C21 witness: an analytics call has returned count 0 on a store that has
\* an active record with a price, and a tombstone
C21_Witness ==
    /\ lastOp.op = "amount_usd_analytics" /\ ret.count = 0
    /\ Matched(FiltersOf(lastOp)) = {}
    /\ \E id \in ActiveIds : dict_get(RecordOf(id), "price") # None
    /\ TombstonedIds # {}

----------------------------------------------------------------------------
(* Analytics: the exact figures and the size of the sample *)

\* the least and the greatest amount of the records ids (not empty)
LeastAmount(ids) ==
    CHOOSE x \in {AmountOf(id) : id \in ids} :
        \A id \in ids : x <= AmountOf(id)
GreatestAmount(ids) ==
    CHOOSE x \in {AmountOf(id) : id \in ids} :
        \A id \in ids : x >= AmountOf(id)

C22_Step ==
    Analysed =>
        LET ids == Matched(FiltersOf(lastOp'))
        IN /\ ret'.count = Cardinality(ids)
           /\ ids # {} =>
                 /\ ret'.sum = SumOfAmounts(ids)
                 /\ ret'.min = LeastAmount(ids)
                 /\ ret'.max = GreatestAmount(ids)
                 /\ ret'.approx_note = Min(Cardinality(ids), lastOp'.x)

\* C22: a call of amount_usd_analytics with sample size s over n matching
\* records returns count n and, for n > 0, the sum, the least and the
\* greatest of all n amounts, and its sample holds min(n, s) values,
\* whatever the integers drawn.
C22_ExactAndBounded == [][C22_Step]_vars

\* C22 witness: a call with sample size 2 over three matching records of
\* different amounts, in which the third value took a slot of the sample
C22_Witness ==
    /\ lastOp.op = "amount_usd_analytics" /\ lastOp.x = 2
    /\ lastOp.rec[1].draws[3] <= 2
    /\ ret.count = 3 /\ ret.approx_note = 2
    /\ ret.min = 1 /\ ret.max = 3 /\ ret.sum = 6

----------------------------------------------------------------------------
(* Analytics: mean and variance *)

RECURSIVE SumOfSquares(_)
SumOfSquares(ids) ==
    IF ids = {} THEN 0
    ELSE LET id == CHOOSE x \in ids : TRUE
         IN AmountOf(id) * AmountOf(id) + SumOfSquares(ids \ {id})

\* the fraction f is num / den
IsFraction(f, num, den) == f[2] > 0 /\ f[1] * den = num * f[2]

C23_Step ==
    Analysed /\ Matched(FiltersOf(lastOp')) # {} =>
        LET ids == Matched(FiltersOf(lastOp'))
            n == Cardinality(ids)
        IN /\ IsFraction(ret'.mean, SumOfAmounts(ids), n)
           /\ ret'.std_pop[1] = "sqrt"
           /\ IsFraction(ret'.std_pop[2],
                         n * SumOfSquares(ids)
                            - SumOfAmounts(ids) * SumOfAmounts(ids),
                         n * n)

\* C23: in exact arithmetic the mean that a call of amount_usd_analytics
\* over n >= 1 matching records returns is the sum of the amounts divided
\* by n, and the variance under the root of std_pop is the sum of the
\* squared deviations from that mean divided by n, that is
\* (n * sum of squares - square of the sum) / n^2.
C23_Welford == [][C23_Step]_vars

\* C23 witness: a call over three matching records whose mean is no whole
\* number and whose variance is not 0
C23_Witness ==
    /\ lastOp.op = "amount_usd_analytics" /\ ret.count = 3
    /\ ret.mean[2] = 3 /\ ret.std_pop[2][1] > 0

----------------------------------------------------------------------------
(* Queries leave the store alone *)

ReadOps ==
    {"get_record_by_timestamp", "get_records_by_timestamp",
     "get_records_by_token", "get_records_by_wallet_sender",
     "range_query_by_timestamp", "build_graph_from_db",
     "amount_usd_analytics"}

C24_Step == lastOp'.op \in ReadOps => UNCHANGED dbVars

----------------------------------------------------------------------------
(* Every restructure *)

\* p and the two children of p are balanced in t
BalancedWithChildren(t, p) ==
    /\ BalancedAt(t, p)
    /\ get_left(t, p) # Nil => BalancedAt(t, get_left(t, p))
    /\ get_right(t, p) # Nil => BalancedAt(t, get_right(t, p))

C25_Step ==
    \A done \in {RestructuresOf(tree, lastOp')} :
        \A i \in DOMAIN done : BalancedWithChildren(done[i].t, done[i].p)

\* C25: every restructure that _rebalance_avl performs, after an insertion
\* or a deletion, leaves the new subtree root and both of its children
\* balanced, although _taller_child takes the left child on a height tie.
C25_RestructureBalances == [][C25_Step]_vars

----------------------------------------------------------------------------
(* Removal of a node with two children *)

\* the positions reachable from the root of t
Reachable(t) == {Preorder(t, t.root)[i] : i \in DOMAIN Preorder(t, t.root)}

\* the node a remove(k) unlinks from t, k held by a node with two children:
\* the leftmost node of the right subtree
SuccessorOf(t, k) ==
    _subtree_first_position(t, get_right(t, _find_position(t, k)[1]))

\* the parts of the step that concern the nodes: t is the tree before
\* remove(k), u the tree that remove(k) leaves (addresses kept)
C26_Unlinks(t, k, u) ==
    LET p0 == _find_position(t, k)[1]
        successor == SuccessorOf(t, k)
        unlinked == remove_rebalances(t, k)
    IN /\ num_children(t, successor) \in {0, 1}
       /\ get_left(t, successor) = Nil
       \* the position that held k holds the successor's key and value
       /\ p0 \in Reachable(u)
       /\ get_key(u, p0) = get_key(t, successor)
       /\ get_value(u, p0) = get_value(t, successor)
       \* the successor's node, and no other, has left the tree
       /\ Reachable(u) = Reachable(t) \ {successor}
       /\ u.node[successor].element = None
       \* _rebalance_avl is called with the successor's former parent
       /\ unlinked.p = get_parent(t, successor)
       /\ unlinked.p # Nil
       \* one node and one key less
       /\ u.size = t.size - 1
       /\ u.tsize = t.tsize - 1
       /\ Cardinality(Reachable(u)) = Cardinality(Reachable(t)) - 1

C26_NodesStep ==
    (lastOp'.op = "remove" /\ lastOp'.y = 2) =>
        \A u \in {remove(tree, lastOp'.x).t} :
            C26_Unlinks(tree, lastOp'.x, u) /\ tree' = Collect(u)

\* the part of C26 about the nodes alone
C26_Nodes == [][C26_NodesStep]_vars

C26_Step ==
    (lastOp'.op = "remove" /\ lastOp'.y = 2) =>
        /\ C26_NodesStep
        /\ ret' = Lookup(tree, lastOp'.x)

\* C26: remove(k) of a key whose node has two children copies the key and
\* value of the in-order successor into the position that held k, unlinks
\* the successor's node (which has 0 or 1 child), rebalances from the
\* successor's former parent upward, lowers the node count by exactly 1
\* and returns the value that was stored under k.
C26_SuccessorReplacement == [][C26_Step]_vars

----------------------------------------------------------------------------
(* Puts alone *)

C27_Step ==
    /\ lastOp'.rec[1].restructures <= 1
    /\ \A p \in Reachable(put(tree, lastOp'.x, lastOp'.y).t) :
           BalancedAt(put(tree, lastOp'.x, lastOp'.y).t, p)

\* C27: in a sequence of puts alone, from an empty AVLTreeMap, every node
\* is balanced (its subtrees differ in height by at most 1) after each put,
\* and a put performs at most one restructure (a single or a double
\* rotation).
C27_PutsBalanced == [](\A p \in Positions(tree) : BalancedAt(tree, p))
                    /\ [][C27_Step]_vars

\* C27 witness: a put has performed a restructure and left a tree of at
\* least six keys, three levels high.
C27_Witness ==
    /\ lastOp.op = "put" /\ lastOp.rec # None
    /\ lastOp.rec[1].restructures = 1
    /\ Len(iter_keys(tree)) >= 6
    /\ Height(tree, tree.root) = 3

----------------------------------------------------------------------------
(* Cached heights *)

\* C28: after every completed put or remove, the cached height (_aux) of
\* every node equals 1 + the greater of the true heights of its subtrees,
\* an absent child counting 0; the early exit of _rebalance_avl leaves no
\* stale height on an ancestor.
C28_CachedHeights ==
    \A p \in Positions(tree) :
        get_aux(tree, p) =
            1 + Max(Height(tree, get_left(tree, p)),
                    Height(tree, get_right(tree, p)))

\* C28 witness: a remove has taken a key out of a tree that is still four
\* levels high, with a node whose subtrees differ in height (its height was
\* unchanged by the removal below it, where the loop stops).
C28_Witness ==
    /\ lastOp.op = "remove" /\ ret # None
    /\ Height(tree, tree.root) = 4
    /\ get_aux(tree, tree.root) = 4
    /\ \E p \in Positions(tree) :
           Height(tree, get_left(tree, p)) # Height(tree, get_right(tree, p))

----------------------------------------------------------------------------
(* Links *)

\* the links of t: the root has no parent, a child's parent pointer refers
\* to the node that lists it, no node is reached twice, and the two sizes
\* kept (AVLTreeMap._size, LinkedBinaryTree._size) count the nodes, which
\* hold distinct keys
LinksConsistent(t) ==
    \A live \in {Reachable(t)} :
        /\ t.root # Nil => get_parent(t, t.root) = Nil
        /\ \A p \in live :
              /\ get_left(t, p) # Nil => get_parent(t, get_left(t, p)) = p
              /\ get_right(t, p) # Nil => get_parent(t, get_right(t, p)) = p
              /\ get_left(t, p) # Nil => get_left(t, p) # get_right(t, p)
              /\ t.node[p].element # None
        /\ Len(Preorder(t, t.root)) = Cardinality(live)
        /\ t.size = Cardinality(live)
        /\ t.tsize = t.size
        /\ Cardinality({get_key(t, p) : p \in live}) = t.size

C29_Step ==
    /\ lastOp'.op = "put" =>
          \A u \in {put(tree, lastOp'.x, lastOp'.y).t} :
              LinksConsistent(u) /\ tree' = Collect(u)
    /\ lastOp'.op = "remove" =>
          \A u \in {remove(tree, lastOp'.x).t} :
              LinksConsistent(u) /\ tree' = Collect(u)

\* C29: after every completed put or remove, rotations included, the links
\* of the tree are consistent: the root has no parent, every child's parent
\* pointer refers to the node that lists it as its left or right child, no
\* node is reachable twice, and len(map) is the number of nodes reachable
\* from the root, which is the number of distinct keys present.
C29_LinksConsistent == [](LinksConsistent(tree)) /\ [][C29_Step]_vars

\* C29 witness: a remove has unlinked the successor of a node with two
\* children and left a tree of at least six nodes on three levels, whose
\* links are consistent.
C29_Witness ==
    /\ lastOp.op = "remove" /\ lastOp.y = 2
    /\ tree.size >= 6
    /\ LinksConsistent(tree)
    /\ Height(tree, tree.root) = 3

----------------------------------------------------------------------------
(* Buckets hold no stale id *)

\* no key of the index has an empty bucket
NoEmptyBucket(index) ==
    \A k \in KeysIn(index) : BucketOf(index, k) # <<>>

\* every id in a bucket of the index is that of an active record
NoDanglingId(index) ==
    \A k \in KeysIn(index) :
        \A i \in DOMAIN BucketOf(index, k) :
            BucketOf(index, k)[i] \in ActiveIds

\* C30: in every reachable state of the store no index holds a key with an
\* empty bucket, and every id in the bucket of a key k of an index is that
\* of a non-tombstoned record whose field of that index (the timestamp as
\* the integer the store makes of it, the token, the sender wallet) is k.
C30_NoStaleIds ==
    /\ NoEmptyBucket(timestamp_index) /\ NoDanglingId(timestamp_index)
    /\ NoEmptyBucket(token_index) /\ NoDanglingId(token_index)
    /\ NoEmptyBucket(wallet_from_index) /\ NoDanglingId(wallet_from_index)
    /\ \A k \in KeysIn(timestamp_index) :
          \A i \in DOMAIN BucketOf(timestamp_index, k) :
              TsOf(RecordOf(BucketOf(timestamp_index, k)[i])) = k
    /\ \A k \in KeysIn(token_index) :
          \A i \in DOMAIN BucketOf(token_index, k) :
              dict_get(RecordOf(BucketOf(token_index, k)[i]), "token")
                 = Some(k)
    /\ \A k \in KeysIn(wallet_from_index) :
          \A i \in DOMAIN BucketOf(wallet_from_index, k) :
              dict_get(RecordOf(BucketOf(wallet_from_index, k)[i]),
                       "wallet_from") = Some(k)

\* C30 witness: record 0 has been deleted, and an update has moved record 1
\* into the timestamp bucket of record 2; the timestamp it had has left the
\* index with it, the bucket having become empty.
C30_Witness ==
    /\ lastOp.op = "update_record" /\ lastOp.x = 1 /\ ret = Some(TRUE)
    /\ ActiveIds = {1, 2} /\ TombstonedIds = {0}
    /\ \E ts \in KeysIn(timestamp_index) :
          BucketOf(timestamp_index, ts) = <<2, 1>>
    /\ Cardinality(KeysIn(timestamp_index)) = 1

----------------------------------------------------------------------------
(* An id missing from its bucket *)

\* the active record id has a token, and the bucket of that token does not
\* hold id: what _remove_from_index(token_index, token, id) will find
MissingFromTokenBucket(id) ==
    /\ dict_get(RecordOf(id), "token") # None
    /\ id \notin Members(BucketOf(token_index,
                                  dict_get(RecordOf(id), "token")[1]))

\* the step is update_record with a token other than the record's
UpdatesTokenOf(id) ==
    /\ lastOp'.op = "update_record" /\ lastOp'.x = id
    /\ "token" \in DOMAIN lastOp'.rec[1]
    /\ lastOp'.rec[1]["token"] # dict_get(RecordOf(id), "token")

C31_Step ==
    \A id \in ActiveIds :
        MissingFromTokenBucket(id) =>
            /\ (lastOp'.op = "delete_record" /\ lastOp'.x = id)
                  => ret' # Some(TRUE)
            /\ UpdatesTokenOf(id) => ret' # Some(TRUE)

\* C31: when delete_record or update_record finds that an id it expects in
\* an index bucket is missing from it, the call does not return success: it
\* signals the violation.
C31_SignalsCorruption == [][C31_Step]_vars

----------------------------------------------------------------------------
(* The per-wallet token counters *)

\* wallet_token_volume[u][tok] of the graph built from the store, or 0
TokenVolumeOf(u, tok) ==
    LET c == build_graph_from_db(DB).wallet_token_volume
    IN IF od_has(c, u) /\ od_has(od_get(c, u), tok)
       THEN od_get(od_get(c, u), tok)
       ELSE 0

\* the record has a sender and a receiver, neither the empty string
HasBothWallets(id) ==
    /\ dict_get(RecordOf(id), "wallet_from") \notin {None, Some(EmptyStr)}
    /\ dict_get(RecordOf(id), "wallet_to") \notin {None, Some(EmptyStr)}

\* the active records of token tok with both wallets that u sent, and those
\* that u received
SentOf(u, tok) == {id \in Sent(u, tok) : HasBothWallets(id)}
ReceivedOf(u, tok) == {id \in Received(u, tok) : HasBothWallets(id)}

RECURSIVE SumOfVolumes(_)
SumOfVolumes(ids) ==
    IF ids = {} THEN 0
    ELSE LET id == CHOOSE x \in ids : TRUE
         IN dict_get(RecordOf(id), "volume")[1] + SumOfVolumes(ids \ {id})

\* the counters count each record once for its sender and once for its
\* receiver; the totals are those of the field volume
C32_Counters ==
    \A u \in AppWallets, tok \in {1, EmptyStr} :
        /\ TokenCountOf(u, tok)
              = Cardinality(SentOf(u, tok)) + Cardinality(ReceivedOf(u, tok))
        /\ TokenVolumeOf(u, tok)
              = SumOfVolumes(SentOf(u, tok)) + SumOfVolumes(ReceivedOf(u, tok))

\* C32: after build_graph_from_db, for every wallet w and token t the
\* per-wallet-per-token counter is the number of active records of token t
\* with both wallets that w sent plus the number that w received, and the
\* per-token total is the sum of their amounts, direction disregarded; a
\* record that w sent to itself counts twice.
C32_TokenCounters ==
    \A u \in AppWallets, tok \in {1, EmptyStr} :
        /\ TokenCountOf(u, tok)
              = Cardinality(SentOf(u, tok)) + Cardinality(ReceivedOf(u, tok))
        /\ TokenVolumeOf(u, tok)
              = SumOfAmounts(SentOf(u, tok)) + SumOfAmounts(ReceivedOf(u, tok))

----------------------------------------------------------------------------
(* Rebuilding *)

IsSome(x) == x # None

\* the graph of the records that are active now, built from nothing
GraphOfActiveRecords ==
    build_graph_loop(SelectSeq(data_store, IsSome), 1, CryptoGraph)

C33_Step ==
    lastOp'.op = "build_graph_from_db" =>
        /\ app_g' = GraphOfActiveRecords
        /\ build_graph_from_db_on(app_g', DB') = app_g'
        /\ \A u \in GraphWallets, v \in GraphWallets :
              Transfers(u, v) = {} => ~od_has(neighbors(app_g', u), v)
        /\ UNCHANGED dbVars

\* C33: build_graph_from_db discards the previous graph: the graph after a
\* rebuild is a function of the active records of the store alone, whatever
\* the graph held before; an edge whose records were all deleted or
\* re-addressed is gone, and a second rebuild from the unchanged store
\* yields the same graph.
C33_RebuildDiscards == [][C33_Step]_vars

\* C33 witness: a rebuild has found a graph with edges and a store whose
\* only record had been deleted, and has left the graph empty.
C33_Witness ==
    /\ lastOp.op = "build_graph_from_db" /\ lastOp.x >= 1
    /\ app_g.graph = <<>>
    /\ TombstonedIds # {} /\ ActiveIds = {}

----------------------------------------------------------------------------
(* The nodes of the graph *)

\* w is a node of g: it has an entry in the adjacency map, or it is a
\* neighbour in the entry of another wallet
IsNode(g, w) ==
    \/ od_has(g.graph, w)
    \/ \E i \in DOMAIN g.graph : od_has(g.graph[i].v, w)

\* the active records that name w as sender or as receiver
RecordsNaming(w) ==
    {id \in ActiveIds :
        \/ dict_get(RecordOf(id), "wallet_from") = Some(w)
        \/ dict_get(RecordOf(id), "wallet_to") = Some(w)}

C34_OriginalStep ==
    lastOp'.op = "build_graph_from_db" =>
        \A w \in GraphWallets : RecordsNaming(w) # {} => IsNode(app_g', w)

\* C34 as stated: after a rebuild every wallet that is the sender or the
\* receiver of at least one active record is a node of the graph.
C34_EveryWalletANode == [][C34_OriginalStep]_vars

C34_Step ==
    lastOp'.op = "build_graph_from_db" =>
        \A w \in GraphWallets :
            /\ (\E id \in RecordsNaming(w) : HasBothWallets(id))
                  <=> IsNode(app_g', w)
            /\ IsNode(app_g', w) <=> od_has(app_g'.wallet_token_counts, w)
            /\ (\E id \in RecordsNaming(w) :
                    /\ HasBothWallets(id)
                    /\ dict_get(RecordOf(id), "wallet_from") = Some(w))
                  <=> od_has(app_g'.graph, w)

\* C34: after a rebuild the nodes of the graph are the wallets that are the
\* sender or the receiver of at least one active record that has both a
\* sender and a receiver: such a wallet has an entry in the per-wallet
\* counters, it has an entry in the adjacency map when it sends, and a
\* wallet that only receives is there as a neighbour.
C34_NodesOfTransfers == [][C34_Step]_vars

\* C34 witness: a rebuild has left wallet 2 a node that only receives (no
\* entry of its own in the adjacency map), while wallet 1 is the sender of
\* an active record without receiver and is no node.
C34_Witness ==
    /\ lastOp.op = "build_graph_from_db"
    /\ IsNode(app_g, 2) /\ ~od_has(app_g.graph, 2)
    /\ RecordsNaming(1) # {} /\ ~IsNode(app_g, 1)

----------------------------------------------------------------------------
(* Traversals *)

\* g has the edge u -> v
HasEdge(g, u, v) == od_has(neighbors(g, u), v)

\* the least number of edges of g from a wallet of reached to dst, plus n;
\* -1 when there is no path
RECURSIVE EdgesFrom(_, _, _, _)
EdgesFrom(g, reached, dst, n) ==
    IF dst \in reached THEN n
    ELSE LET next == reached \cup {v \in WalkStarts :
                                     \E u \in reached : HasEdge(g, u, v)}
         IN IF next = reached THEN -1 ELSE EdgesFrom(g, next, dst, n + 1)

Distance(g, src, dst) == EdgesFrom(g, {src}, dst, 0)
ReachableFrom(g, src) == {v \in WalkStarts : Distance(g, src, v) # -1}

\* order lists start first and then the wallets reachable from it, each
\* once
Walks(order, g, start) ==
    /\ Len(order) >= 1 /\ order[1] = start
    /\ \A i \in DOMAIN order, j \in DOMAIN order :
          order[i] = order[j] => i = j
    /\ Members(order) = ReachableFrom(g, start)
    /\ neighbors(g, start) = <<>> => order = <<start>>

\* order lists the wallets by hop distance from start, the nearer first
ByDistance(order, g, start) ==
    \A i \in 1..(Len(order) - 1) :
        Distance(g, start, order[i]) <= Distance(g, start, order[i + 1])

\* what holds of bfs always and of dfs when it returns; dfs raises
\* RecursionError only when more than WalkDepth wallets are reachable
C35_ReturnedStep ==
    /\ lastOp'.op = "bfs" =>
          /\ Len(ret') = 1
          /\ Walks(ret'[1], app_g, lastOp'.x)
          /\ ByDistance(ret'[1], app_g, lastOp'.x)
    /\ lastOp'.op = "dfs" =>
          IF Len(ret') = 1
          THEN /\ Walks(ret'[1], app_g, lastOp'.x)
               /\ Members(ret'[1]) = Members(bfs(app_g, lastOp'.x)[1])
          ELSE Cardinality(ReachableFrom(app_g, lastOp'.x)) > WalkDepth

C35_Returned == [][C35_ReturnedStep]_vars

C35_Step ==
    /\ C35_ReturnedStep
    /\ lastOp'.op = "dfs" => Len(ret') = 1

\* C35: for any graph, cycles and self-loops included, and any start wallet
\* bfs(start) and dfs(start) return: start first, then the wallets reachable
\* from start over outgoing edges, each exactly once, bfs in non-decreasing
\* hop distance; both return [start] for a wallet without outgoing edges.
C35_Traversals == [][C35_Step]_vars

----------------------------------------------------------------------------
(* Queries of the graph *)

GraphQueries == {"neighbors", "bfs", "dfs", "top_tokens_for_wallet"}

C36_Step ==
    lastOp'.op \in GraphQueries =>
        /\ app_g'.graph = app_g.graph
        /\ app_g'.wallet_token_counts = app_g.wallet_token_counts
        /\ app_g'.wallet_token_volume = app_g.wallet_token_volume

----------------------------------------------------------------------------
(* Analytics: the reservoir *)

\* the amounts of the records ids in the order of the store, from the slot
\* of id on
RECURSIVE AmountsFrom(_, _)
AmountsFrom(ids, id) ==
    IF id >= Len(data_store) THEN <<>>
    ELSE IF id \in ids THEN <<AmountOf(id)>> \o AmountsFrom(ids, id + 1)
    ELSE AmountsFrom(ids, id + 1)

\* Algorithm R: the sample after the first n values of xs, size being the
\* size of the reservoir and draws[i] the integer of 1..i drawn for the
\* i-th value
RECURSIVE AlgorithmR(_, _, _, _)
AlgorithmR(xs, n, size, draws) ==
    IF n <= size THEN SubSeq(xs, 1, n)
    ELSE IF draws[n] <= size
    THEN [AlgorithmR(xs, n - 1, size, draws) EXCEPT ![draws[n]] = xs[n]]
    ELSE AlgorithmR(xs, n - 1, size, draws)

\* every value is in s no more often than in t
SubMultiset(s, t) == \A x \in Members(s) : Count(s, x) <= Count(t, x)

\* the sample of the loop of amount_usd_analytics after the values xs
SampleAfter(xs, size, draws) ==
    analytics_loop(xs, 1, analytics_locals, size, draws).sample

C37_Step ==
    Analysed =>
        \A xs \in {AmountsFrom(Matched(FiltersOf(lastOp')), 0)} :
            /\ \A n \in 0..Len(xs) :
                  \A sample \in {SampleAfter(SubSeq(xs, 1, n), lastOp'.x,
                                             lastOp'.rec[1].draws)} :
                      /\ sample = AlgorithmR(xs, n, lastOp'.x,
                                             lastOp'.rec[1].draws)
                      /\ SubMultiset(sample, SubSeq(xs, 1, n))
                      /\ Len(sample) <= lastOp'.x
            /\ xs # <<>> =>
                  ret'.approx_note =
                      Len(AlgorithmR(xs, Len(xs), lastOp'.x,
                                     lastOp'.rec[1].draws))

\* C37: in a call of amount_usd_analytics with sample size s the sample
\* after the first n matching values is the one of Algorithm R: for n <= s
\* the n values in the order they came, for n > s the sample before with
\* slot j - 1 replaced by the n-th value when the integer j drawn from 1..n
\* is <= s, and the sample before otherwise; it is always a sub-multiset of
\* the values seen so far and never longer than s.
C37_AlgorithmR == [][C37_Step]_vars

\* C37 witness: a call with sample size 2 over three matching records of
\* amounts 1, 2, 3 in that order, in which 2 was drawn for the third value,
\* which took the second slot: the percentiles are read from 1 and 3.
C37_Witness ==
    /\ lastOp.op = "amount_usd_analytics" /\ lastOp.x = 2
    /\ AmountsFrom(Matched(FiltersOf(lastOp)), 0) = <<1, 2, 3>>
    /\ lastOp.rec[1].draws[3] = 2
    /\ ret.approx_percentiles.p50 = 1 /\ ret.approx_percentiles.p99 = 3

----------------------------------------------------------------------------
(* Analytics: the filters *)

\* the active records that pass the four filters f
Filtered(f) ==
    {id \in ActiveIds :
        /\ Passes(id, "token", f.symbol)
        /\ Passes(id, "status", f.status)
        /\ Passes(id, "wallet_from", f.sender_wallet)
        /\ Passes(id, "wallet_to", f.receiver_wallet)}

\* a filter that is left out or empty
Open(x) == x \in {None, Some(EmptyStr)}

C38_OriginalStep ==
    Analysed => ret'.count = Cardinality(Filtered(FiltersOf(lastOp')))

C38_Step ==
    Analysed =>
        \A f \in {FiltersOf(lastOp')} :
            /\ ret'.count =
                   Cardinality({id \in Filtered(f) :
                       /\ dict_get(RecordOf(id), "price") # None
                       /\ dict_get(RecordOf(id), "__deleted__")
                              \in {None, Some(FALSE)}})
            /\ ret'.count <= Cardinality(ActiveIds)
            /\ Open(f.symbol) /\ Open(f.status) /\ Open(f.sender_wallet)
                   /\ Open(f.receiver_wallet) =>
                  ret'.count = Cardinality(Matched(f))
                  /\ Matched(f) =
                         {id \in ActiveIds :
                             /\ dict_get(RecordOf(id), "price") # None
                             /\ dict_get(RecordOf(id), "__deleted__")
                                    \in {None, Some(FALSE)}}

----------------------------------------------------------------------------
(* Analytics: the same call, the same result *)

\* what a call with the filters f and the sample size size returns on the
\* store db
Invoked(db, f, size) ==
    amount_usd_analytics(db, f.symbol, f.status, f.sender_wallet,
                         f.receiver_wallet, size,
                         draws_of_call(db, f, size, Seed))

C39_Step ==
    Analysed =>
        /\ UNCHANGED <<dbVars, appVars>>
        /\ ret' = Invoked(DB', FiltersOf(lastOp'), lastOp'.x)
        /\ lastOp.op = "amount_usd_analytics"
               /\ FiltersOf(lastOp) = FiltersOf(lastOp')
               /\ lastOp.x = lastOp'.x
               => ret' = ret

----------------------------------------------------------------------------
(* Analytics: the percentiles *)

\* the index of 0..m-1 nearest to (m - 1) * hundredths / 100, the even one
\* of two that are equally near
NearestRank(m, hundredths) ==
    CHOOSE i \in 0..(m - 1) :
        \A k \in 0..(m - 1) :
            \/ Abs(100 * i - (m - 1) * hundredths)
                   < Abs(100 * k - (m - 1) * hundredths)
            \/ /\ Abs(100 * i - (m - 1) * hundredths)
                      = Abs(100 * k - (m - 1) * hundredths)
               /\ i = k \/ i % 2 = 0

\* the values xs in ascending order
Ascending(xs) ==
    LET le(x, y) == x <= y
    IN SortSeq(xs, le)

\* the percentiles p are those read by nearest rank from the values xs,
\* which are not empty
ReadFrom(p, xs) ==
    /\ p.p50 = Ascending(xs)[1 + NearestRank(Len(xs), 50)]
    /\ p.p90 = Ascending(xs)[1 + NearestRank(Len(xs), 90)]
    /\ p.p95 = Ascending(xs)[1 + NearestRank(Len(xs), 95)]
    /\ p.p99 = Ascending(xs)[1 + NearestRank(Len(xs), 99)]

\* the percentiles p are in order between least and greatest
InOrder(p, least, greatest) ==
    /\ least <= p.p50 /\ p.p50 <= p.p90 /\ p.p90 <= p.p95
    /\ p.p95 <= p.p99 /\ p.p99 <= greatest

C40_OriginalStep ==
    Analysed /\ ret'.count > 0 =>
        \A xs \in {AmountsFrom(Matched(FiltersOf(lastOp')), 0)} :
            /\ InOrder(ret'.approx_percentiles, ret'.min, ret'.max)
            /\ Len(xs) <= lastOp'.x =>
                  ReadFrom(ret'.approx_percentiles, xs)

\* C40: the percentiles that a call of amount_usd_analytics returns are in
\* order, min <= p50 <= p90 <= p95 <= p99 <= max, and when no more values
\* matched than the sample holds they are the nearest-rank percentiles of
\* all the matched values.
C40_PercentilesInOrder == [][C40_OriginalStep]_vars

C40_Step ==
    Analysed /\ ret'.count > 0 =>
        \A xs \in {AmountsFrom(Matched(FiltersOf(lastOp')), 0)} :
            \A sample \in {AlgorithmR(xs, Len(xs), lastOp'.x,
                                      lastOp'.rec[1].draws)} :
                /\ sample = <<>> =>
                      /\ lastOp'.x = 0
                      /\ \A h \in {"p50", "p90", "p95", "p99"} :
                            ret'.approx_percentiles[h] = 0
                /\ sample # <<>> =>
                      /\ ReadFrom(ret'.approx_percentiles, sample)
                      /\ InOrder(ret'.approx_percentiles, ret'.min,
                                 ret'.max)
                /\ Len(xs) <= lastOp'.x => sample = xs

\* C40 (amended): the percentiles are read from the sorted sample, when it
\* is not empty, at the index of 0..m-1 nearest to (m - 1) * p, m being
\* the length of the sample, and then min <= p50 <= p90 <= p95 <= p99 <=
\* max; when no more values matched than the sample holds, the sample is
\* all the matched values and the percentiles are exact.  The sample is
\* empty when the sample size is 0, and every percentile is 0.0 then.
C40_PercentilesOfSample == [][C40_Step]_vars

\* C40 witness: a call with sample size 2 over two matching records of
\* different amounts has returned the smaller as p50, the index 0.5 being
\* rounded to 0, and the greater as p90.
C40_Witness ==
    /\ lastOp.op = "amount_usd_analytics" /\ lastOp.x = 2
    /\ ret.count = 2 /\ ret.min < ret.max
    /\ ret.approx_percentiles.p50 = ret.min
    /\ ret.approx_percentiles.p90 = ret.max

====
